---- MODULE Spec2Model ----
(***************************************************************************)
(* Model of the chat server of src/backend/server.js: the in-memory        *)
(* storage (users, rooms, sockets, typingUsers), the socket.io rooms each  *)
(* socket is subscribed to, and one action per socket event handler        *)
(* (connection, joinRoom, sendMessage, typing, disconnect, leaveRoom).     *)
(*                                                                         *)
(* Strings are sequences of one-character strings so that String.trim()    *)
(* is computed.  A JS Map is a function whose DOMAIN is the key set, a JS  *)
(* Set is a set (iteration order is not modelled).  uuidv4() is a fresh    *)
(* number taken from a counter; the uuid and timestamp of system notices   *)
(* are not modelled.  Every handler runs to completion (node's event       *)
(* loop), so each handler is one action; the emits of the handler are      *)
(* recorded, in order, in outbox.                                          *)
(***************************************************************************)
EXTENDS Integers, Sequences, FiniteSets, TLC

\* ---------------------------------------------------------------- bounds
\* Retained messages per room: stands for the 100 of server.js line 102.
MaxLog == 2
\* Number of user messages uuidv4() can name: enough to overflow a log.
MaxMsgs == MaxLog + 1
\* Typing expiry D in clock ticks: stands for the 2000 ms of the spec.
TypingExpiry == 2

\* Longest message body the hardened server accepts: stands for the 500 of
\* server-secure.js line 333.
MaxBody == 2

\* Connections the hardened server accepts from one IP address: stands for
\* the 5 of server-secure.js line 248.
MaxConnectionsPerIP == 2
\* Messages per window of the hardened server's messageLimiter: stands for the
\* 30 of server-secure.js line 63.
MaxPerWindow == 2
\* Characters sanitizeInput keeps (server-secure.js line 79).
SanitizeCut == 1000
\* Shortest and longest names isValidUsername and isValidRoomName admit
\* (server-secure.js lines 86 and 93).
MinNameLen == 2
MaxUsernameLen == 20
MaxRoomLen == 30
\* Retained messages per room of the hardened server: stands for the 50 of
\* server-secure.js line 203.
MaxSecureLog == 2
\* Number of user messages uuidv4() can name on the hardened server: enough
\* to pass the limit of a window and to overflow a log.
MaxSecureMsgs == MaxPerWindow + 1

\* Ticks after which the model stops counting the age of a typing entry.
MaxAge == TypingExpiry + 2

\* The socket connections the model opens (socket.id is never reused) and the
\* identity ids uuidv4() can name (joins are disabled afterwards).
Sockets == {1, 2}
UserIds == {1, 2}

\* The connections opened to the hardened server and the addresses they
\* come from.
SecureSockets == {1, 2, 3, 4}
Addresses == {"a", "b"}
\* The connections that chat when the message handling is checked, and the
\* identity ids uuidv4() can name on the hardened server.
ChatSockets == {1, 2}
SecureUserIds == {1, 2}

\* ---------------------------------------------------------------- strings
SP == " "
System == <<"S", "y", "s">>

\* The payload fields a client may send.
UserInputs == { <<"A", SP>> }
RoomInputs == { <<"g">>, <<SP, "r">>, <<>> }
TextInputs == { <<SP, "h">>, <<SP>> }

\* Payload fields at the edge of the format constraints: a name that is blank
\* after trimming, and a message body longer than the bound.
BlankableUsers == { <<"A", SP>>, <<SP>> }
BlankableRooms == { <<"g">>, <<SP>>, <<>> }
LongText == [i \in 1..(MaxBody + 2) |-> "h"]

\* Names sent to the hardened server: admitted ones, one that is too short
\* and one with a character outside the admitted class.
SecureUserInputs == { <<"A", "l">>, <<"A">> }
SecureRoomInputs == { <<"g", "g">>, <<SP, "r", "r">>, <<"g", "!">> }
\* The rooms joined when the connection counters are checked.
CountedRoomInputs == { <<"g", "g">>, <<"g", "!">> }
BodyInputs == { <<SP, "h">>, <<SP>>, LongText }

RECURSIVE TrimStart(_)
TrimStart(s) == IF s /= <<>> /\ Head(s) = SP THEN TrimStart(Tail(s)) ELSE s

RECURSIVE TrimEnd(_)
TrimEnd(s) ==
    IF s /= <<>> /\ s[Len(s)] = SP THEN TrimEnd(SubSeq(s, 1, Len(s) - 1)) ELSE s

\* String.prototype.trim
Trim(s) == TrimEnd(TrimStart(s))

\* JS truthiness of a string
Truthy(s) == s /= <<>>

\* ---------------------------------------------------------------- JS Map
EmptyMap == << >>
Has(m, k) == k \in DOMAIN m
Put(m, k, v) == [x \in (DOMAIN m) \cup {k} |-> IF x = k THEN v ELSE m[x]]
Del(m, k) == [x \in (DOMAIN m) \ {k} |-> m[x]]

\* Array.prototype.slice(-n)
SliceLast(a, n) == IF Len(a) <= n THEN a ELSE SubSeq(a, Len(a) - n + 1, Len(a))

VARIABLES
    users,        \* storage.users: userId -> [id, username, room, socketId]
    rooms,        \* storage.rooms: roomName -> [users, messages]
    sockets,      \* storage.sockets: socketId -> userId
    typingUsers,  \* storage.typingUsers: roomName -> set of userIds
    status,       \* socket -> "new" | "open" | "closed"
    sioRooms,     \* socket -> the socket.io rooms it has joined
    nextUser,     \* next identity id uuidv4() returns
    nextMsg,      \* next user message id uuidv4() returns
    last,         \* the inbound event handled last
    outbox,       \* the emits of that handler, in order
    lastOnline,   \* socket -> payload of the last onlineUsers it was sent
    accepted,     \* history: roomName -> the user messages accepted for it
    typingAge,    \* history: userId -> ticks since its typing(true) entry
    typingDue,    \* history: socket -> ticks since a typing member of its room
                  \* departed and no typing update has reached it
    process,      \* the node process: "running" | "crashed"
    received,     \* history: socket -> ids of the user messages it was sent
                  \* by message events, in the order of the emits
    secure,       \* the hardened server (server-secure.js): its connection
                  \* counters, connections, identities, log and last handler
    client,       \* one client's message input (MessageInput.tsx): its React
                  \* state, its timer and the emits of its last handler
    app           \* one client's App component with its socketService, the
                  \* events in flight between it and the server, and what
                  \* the server holds for its session

vars == << users, rooms, sockets, typingUsers, status, sioRooms, nextUser,
           nextMsg, last, outbox, lastOnline, accepted, typingAge, typingDue,
           process, received, secure, client, app >>

storage == [users |-> users, rooms |-> rooms, sockets |-> sockets,
            typingUsers |-> typingUsers]

Connected == { s \in Sockets : status[s] = "open" }

\* No onlineUsers event received yet.
NoList == [seen |-> FALSE, users |-> {}]

\* ---------------------------------------------------------------- emits
Emit(event, to, payload) == [event |-> event, to |-> to, payload |-> payload]

\* io.to(room): the connected sockets subscribed to the socket.io room.
IoTo(sio, conn, room) == { t \in conn : room \in sio[t] }

\* socket.to(room): the same, the emitting socket excluded.
SocketTo(sio, conn, s, room) == IoTo(sio, conn, room) \ {s}

\* What a socket holds as online-users list after the emits of out.
RECURSIVE OnlineAfter(_, _, _)
OnlineAfter(cur, out, t) ==
    IF out = <<>> THEN cur
    ELSE OnlineAfter(IF Head(out).event = "onlineUsers" /\ t \in Head(out).to
                         THEN [seen |-> TRUE, users |-> Head(out).payload]
                         ELSE cur,
                     Tail(out), t)

Delivered(out) == [t \in Sockets |-> OnlineAfter(lastOnline[t], out, t)]

\* The user messages each socket has been sent after the emits of out: a
\* socket receives the emits addressed to it in the order they are issued.
RECURSIVE ReceivedBy(_, _, _)
ReceivedBy(cur, out, t) ==
    IF out = <<>> THEN cur
    ELSE ReceivedBy(IF /\ Head(out).event = "message"
                       /\ Head(out).payload.type = "user"
                       /\ t \in Head(out).to
                    THEN Append(cur, Head(out).payload.id) ELSE cur,
                    Tail(out), t)

ReceivedAfter(out) == [t \in Sockets |-> ReceivedBy(received[t], out, t)]

\* The sockets that are sent a typing event by the emits of out.
RECURSIVE SentTyping(_)
SentTyping(out) ==
    IF out = <<>> THEN {}
    ELSE (IF Head(out).event = "typing" THEN Head(out).to ELSE {})
         \cup SentTyping(Tail(out))

\* ---------------------------------------------------------------- StorageUtils
\* addUser that also pushes a join notice onto the room's message log.
addUserLogsJoin(st, userId, username, room, socketId) ==
    LET user == [id |-> userId, username |-> username, room |-> room,
                 socketId |-> socketId]
        notice == [id |-> 0, username |-> System,
                   message |-> <<"joined">> \o username, type |-> "system"]
        rs == IF Has(st.rooms, room) THEN st.rooms
              ELSE Put(st.rooms, room, [users |-> {}, messages |-> <<>>])
    IN [st EXCEPT !.users = Put(st.users, userId, user),
                  !.sockets = Put(st.sockets, socketId, userId),
                  !.rooms = Put(rs, room,
                                [users |-> rs[room].users \cup {userId},
                                 messages |-> Append(rs[room].messages, notice)])]

\* addUser that updates the identity the socket already has instead of
\* registering the new id.
addUserReusesIdentity(st, userId, username, room, socketId) ==
    LET id == IF Has(st.sockets, socketId) THEN st.sockets[socketId] ELSE userId
        user == [id |-> id, username |-> username, room |-> room,
                 socketId |-> socketId]
        rs == IF Has(st.rooms, room) THEN st.rooms
              ELSE Put(st.rooms, room, [users |-> {}, messages |-> <<>>])
    IN [st EXCEPT !.users = Put(st.users, id, user),
                  !.sockets = Put(st.sockets, socketId, id),
                  !.rooms = Put(rs, room,
                                [rs[room] EXCEPT !.users = @ \cup {id}])]

\* StorageUtils.addUser: returns the storage after the call.
addUser(st, userId, username, room, socketId) ==
    LET user == [id |-> userId, username |-> username, room |-> room,
                 socketId |-> socketId]
        rs == IF Has(st.rooms, room) THEN st.rooms
              ELSE Put(st.rooms, room, [users |-> {}, messages |-> <<>>])
    IN [st EXCEPT !.users = Put(st.users, userId, user),
                  !.sockets = Put(st.sockets, socketId, userId),
                  !.rooms = Put(rs, room,
                                [rs[room] EXCEPT !.users = @ \cup {userId}])]

\* StorageUtils.getUserBySocketId: the user record, or NoUser for null/undefined.
NoUser == [none |-> TRUE]

\* getUserBySocketId that searches the user records for the socket id instead
\* of going through the session store.
getUserBySocketIdScan(st, socketId) ==
    LET found == { id \in DOMAIN st.users : st.users[id].socketId = socketId }
    IN IF found = {} THEN NoUser
       ELSE st.users[CHOOSE id \in found : \A other \in found : other <= id]

getUserBySocketId(st, socketId) ==
    IF Has(st.sockets, socketId) /\ Has(st.users, st.sockets[socketId])
    THEN st.users[st.sockets[socketId]]
    ELSE NoUser

\* StorageUtils.getUsersInRoom
getUsersInRoom(st, roomName) ==
    IF ~Has(st.rooms, roomName) THEN {}
    ELSE { st.users[id] : id \in st.rooms[roomName].users \cap DOMAIN st.users }

\* StorageUtils.getRoomMessages
getRoomMessages(st, roomName) ==
    IF Has(st.rooms, roomName) THEN st.rooms[roomName].messages ELSE <<>>

\* removeUser that takes the id out of the room only: the users and sockets
\* entries of lines 76-77 are kept.
removeUserKeepsRecord(st, socketId) ==
    IF ~Has(st.sockets, socketId) THEN [st |-> st, user |-> NoUser]
    ELSE LET userId == st.sockets[socketId] IN
         IF ~Has(st.users, userId) THEN [st |-> st, user |-> NoUser]
         ELSE LET user == st.users[userId]
                  rs == IF Has(st.rooms, user.room)
                        THEN [st.rooms EXCEPT ![user.room].users = @ \ {userId}]
                        ELSE st.rooms
                  ty == IF Has(st.rooms, user.room) /\ Has(st.typingUsers, user.room)
                        THEN [st.typingUsers EXCEPT ![user.room] = @ \ {userId}]
                        ELSE st.typingUsers
              IN [st |-> [users |-> st.users,
                          rooms |-> rs,
                          sockets |-> st.sockets,
                          typingUsers |-> ty],
                  user |-> user]

\* removeUser without the room.users.delete of line 67: the id stays in the
\* member set.
removeUserKeepsMember(st, socketId) ==
    IF ~Has(st.sockets, socketId) THEN [st |-> st, user |-> NoUser]
    ELSE LET userId == st.sockets[socketId] IN
         IF ~Has(st.users, userId) THEN [st |-> st, user |-> NoUser]
         ELSE LET user == st.users[userId]
                  ty == IF Has(st.rooms, user.room) /\ Has(st.typingUsers, user.room)
                        THEN [st.typingUsers EXCEPT ![user.room] = @ \ {userId}]
                        ELSE st.typingUsers
              IN [st |-> [users |-> Del(st.users, userId),
                          rooms |-> st.rooms,
                          sockets |-> Del(st.sockets, socketId),
                          typingUsers |-> ty],
                  user |-> user]

\* removeUser without the typingUsers deletion of lines 69-72.
removeUserKeepsTyping(st, socketId) ==
    IF ~Has(st.sockets, socketId) THEN [st |-> st, user |-> NoUser]
    ELSE LET userId == st.sockets[socketId] IN
         IF ~Has(st.users, userId) THEN [st |-> st, user |-> NoUser]
         ELSE LET user == st.users[userId]
                  rs == IF Has(st.rooms, user.room)
                        THEN [st.rooms EXCEPT ![user.room].users = @ \ {userId}]
                        ELSE st.rooms
              IN [st |-> [users |-> Del(st.users, userId),
                          rooms |-> rs,
                          sockets |-> Del(st.sockets, socketId),
                          typingUsers |-> st.typingUsers],
                  user |-> user]

\* StorageUtils.removeUser: the storage after the call and the value returned.
removeUser(st, socketId) ==
    IF ~Has(st.sockets, socketId) THEN [st |-> st, user |-> NoUser]
    ELSE LET userId == st.sockets[socketId] IN
         IF ~Has(st.users, userId) THEN [st |-> st, user |-> NoUser]
         ELSE LET user == st.users[userId]
                  rs == IF Has(st.rooms, user.room)
                        THEN [st.rooms EXCEPT ![user.room].users = @ \ {userId}]
                        ELSE st.rooms
                  ty == IF Has(st.rooms, user.room) /\ Has(st.typingUsers, user.room)
                        THEN [st.typingUsers EXCEPT ![user.room] = @ \ {userId}]
                        ELSE st.typingUsers
              IN [st |-> [users |-> Del(st.users, userId),
                          rooms |-> rs,
                          sockets |-> Del(st.sockets, socketId),
                          typingUsers |-> ty],
                  user |-> user]

\* addMessage with unshift for push: the new message goes to the front.
addMessagePrepends(rs, roomName, message) ==
    IF ~Has(rs, roomName) THEN rs
    ELSE LET pushed == <<message>> \o rs[roomName].messages
         IN [rs EXCEPT ![roomName].messages =
                IF Len(pushed) > MaxLog THEN SliceLast(pushed, MaxLog) ELSE pushed]

\* addMessage without the length check: the log is never cut.
addMessageNoCut(rs, roomName, message) ==
    IF ~Has(rs, roomName) THEN rs
    ELSE [rs EXCEPT ![roomName].messages = Append(@, message)]

\* addMessage with slice(0, n) for slice(-n): the newest entry is dropped.
addMessageKeepOldest(rs, roomName, message) ==
    IF ~Has(rs, roomName) THEN rs
    ELSE LET pushed == Append(rs[roomName].messages, message)
         IN [rs EXCEPT ![roomName].messages =
                IF Len(pushed) > MaxLog THEN SubSeq(pushed, 1, MaxLog) ELSE pushed]

\* StorageUtils.addMessage: the rooms after the call.
addMessage(rs, roomName, message) ==
    IF ~Has(rs, roomName) THEN rs
    ELSE LET pushed == Append(rs[roomName].messages, message)
         IN [rs EXCEPT ![roomName].messages =
                IF Len(pushed) > MaxLog THEN SliceLast(pushed, MaxLog) ELSE pushed]

\* StorageUtils.setTyping: the typing store after the call and the list returned.
setTyping(st, userId, roomName, isTyping) ==
    LET ty0 == IF Has(st.typingUsers, roomName) THEN st.typingUsers
               ELSE Put(st.typingUsers, roomName, {})
        ty == [ty0 EXCEPT ![roomName] =
                  IF isTyping THEN @ \cup {userId} ELSE @ \ {userId}]
    IN [typingUsers |-> ty,
        list |-> { st.users[id] : id \in ty[roomName] \cap DOMAIN st.users }]

\* The ids held by the typing sets, and the ticks each entry has been held:
\* an entry that is added or refreshed starts at 0.
AllTyping(ty) == UNION { ty[r] : r \in DOMAIN ty }
AgeAfter(ty, refreshed) ==
    [id \in AllTyping(ty) |->
        IF id \in refreshed \/ ~Has(typingAge, id) THEN 0 ELSE typingAge[id]]

\* The connections that have to be told when the identity user of socket s
\* departs: the other members of its room, if it is in the room's typing set.
OwedUpdate(s, user) ==
    IF user = NoUser THEN {}
    ELSE IF Has(typingUsers, user.room) /\ user.id \in typingUsers[user.room]
    THEN { t \in Connected \ {s} :
              /\ Has(sockets, t) /\ Has(users, sockets[t])
              /\ users[sockets[t]].room = user.room }
    ELSE {}

\* The sockets still waiting for a typing update after a handler: the newly
\* owed ones start at 0, a socket that is sent a typing event by out (its list
\* is computed from the typing set the departed id was taken out of) or that
\* itself departs or joins anew waits no longer.
DueAfter(owed, out, gone) ==
    [t \in ((DOMAIN typingDue \cup owed) \ gone) \ SentTyping(out) |->
        IF Has(typingDue, t) THEN typingDue[t] ELSE 0]

\* ---------------------------------------------------------------- payloads
\* The system notices of joinRoom, disconnect and leaveRoom.
SystemMessage(kind, text) ==
    [id |-> 0, username |-> System, message |-> <<kind>> \o text,
     type |-> "system"]

\* The list emitted by the typing handler: typingUsers.filter(u => u.id !== user.id)
TypingPayload(list, user) == { u \in list : u.id /= user.id }

\* The events whose handler takes its fields from the payload.
PayloadEvents == {"joinRoom", "sendMessage", "typing"}

\* ---------------------------------------------------------------- hardened server
\* sanitizeInput of server-secure.js: trim, cut to 1000 characters, xss().  The
\* payloads of the model hold no markup, which is all xss() rewrites.
sanitizeInput(input) ==
    LET t == Trim(input)
    IN IF Len(t) > SanitizeCut THEN SubSeq(t, 1, SanitizeCut) ELSE t

\* The characters of the model's payloads that /^[a-zA-Z0-9_\s]+$/ admits.
NameChars == {"A", "l", "g", "r", "h", "_", SP}

\* isValidUsername and isValidRoomName of server-secure.js.
isValidName(name, longest) ==
    /\ Truthy(name)
    /\ LET sanitized == sanitizeInput(name)
       IN /\ Len(sanitized) >= MinNameLen
          /\ Len(sanitized) <= longest
          /\ \A i \in 1..Len(sanitized) : sanitized[i] \in NameChars

isValidUsername(username) == isValidName(username, MaxUsernameLen)
isValidRoomName(room) == isValidName(room, MaxRoomLen)

\* storage.ipConnections.get(ip) || 0
ConnectionsFrom(ipc, ip) == IF Has(ipc, ip) THEN ipc[ip] ELSE 0

\* trackConnection: the counters after the call (the count it returns is the
\* new counter of ip).
trackConnection(ipc, ip) == Put(ipc, ip, ConnectionsFrom(ipc, ip) + 1)

\* untrackConnection that leaves the counters as they are.
untrackConnectionNoop(ipc, ip) == ipc

\* untrackConnection: the counters after the call.
untrackConnection(ipc, ip) ==
    LET current == IF Has(ipc, ip) /\ ipc[ip] /= 0 THEN ipc[ip] ELSE 1
    IN IF current <= 1 THEN Del(ipc, ip) ELSE Put(ipc, ip, current - 1)

\* StorageUtils.addUser of server-secure.js: the name and the room are
\* sanitized once more for the user record; the room is keyed as passed.
secureAddUser(st, userId, username, room, socketId) ==
    LET user == [id |-> userId, username |-> sanitizeInput(username),
                 room |-> sanitizeInput(room), socketId |-> socketId]
        rs == IF Has(st.rooms, room) THEN st.rooms
              ELSE Put(st.rooms, room, [users |-> {}, messages |-> <<>>])
    IN [st EXCEPT !.users = Put(st.users, userId, user),
                  !.sockets = Put(st.sockets, socketId, userId),
                  !.rooms = Put(rs, room,
                                [rs[room] EXCEPT !.users = @ \cup {userId}])]

\* StorageUtils.addMessage of server-secure.js: the rooms after the call.
secureAddMessage(rs, roomName, message) ==
    IF ~Has(rs, roomName) THEN rs
    ELSE LET sanitizedMessage ==
                 [message EXCEPT !.message = sanitizeInput(@),
                                 !.username = sanitizeInput(@)]
             pushed == Append(rs[roomName].messages, sanitizedMessage)
         IN [rs EXCEPT ![roomName].messages =
                IF Len(pushed) > MaxSecureLog THEN SliceLast(pushed, MaxSecureLog)
                ELSE pushed]

\* The hardened server after construction: the storage of server-secure.js,
\* the connections with their address, the socket.io subscriptions, and the
\* user messages accepted from each connection in the running window.
SecureInit ==
    [ipConnections |-> EmptyMap,
     users |-> EmptyMap,
     rooms |-> EmptyMap,
     sockets |-> EmptyMap,
     typingUsers |-> EmptyMap,
     conn |-> [c \in SecureSockets |-> [state |-> "new", ip |-> "a"]],
     sio |-> [c \in SecureSockets |-> {}],
     sent |-> [c \in SecureSockets |-> 0],
     nextUser |-> 1,
     nextId |-> 1,
     process |-> "running",
     last |-> [type |-> "init"],
     out |-> <<>>]

\* The storage object of server-secure.js.  removeUser, getUserBySocketId,
\* getUsersInRoom, getRoomMessages and setTyping of its StorageUtils are
\* line for line those of server.js and are applied to it.
SecureStorage(sec) ==
    [users |-> sec.users, rooms |-> sec.rooms, sockets |-> sec.sockets,
     typingUsers |-> sec.typingUsers]

SecureOpen(sec) == { c \in SecureSockets : sec.conn[c].state = "open" }

\* The base server's variables, which no handler of the hardened server touches.
BaseUnchanged ==
    UNCHANGED << users, rooms, sockets, typingUsers, status, sioRooms,
                 nextUser, nextMsg, last, outbox, lastOnline, accepted,
                 typingAge, typingDue, process, received, client, app >>

\* io.on('connection') of server-secure.js: the connection is counted; over
\* the limit it is sent an error, disconnected and uncounted, and the handler
\* returns before any socket.on is reached.
SecureConnection(c, ip) ==
    /\ secure.process = "running"
    /\ secure.conn[c].state = "new"
    /\ \A d \in SecureSockets : d < c => secure.conn[d].state /= "new"
    /\ LET tracked == trackConnection(secure.ipConnections, ip)
           refused == tracked[ip] > MaxConnectionsPerIP
       IN secure' =
            [secure EXCEPT
               !.ipConnections = IF refused THEN untrackConnection(tracked, ip)
                                 ELSE tracked,
               !.conn[c] = [state |-> IF refused THEN "refused" ELSE "open",
                            ip |-> ip],
               !.last = [type |-> "connection", socket |-> c, ip |-> ip],
               !.out = IF refused
                       THEN << Emit("error", {c}, "Connection limit exceeded") >>
                       ELSE <<>>]
    /\ BaseUnchanged

\* socket.on('joinRoom') of server-secure.js.  The handler does not ask
\* whether the socket already has an identity: a second joinRoom registers a
\* second identity, and the session entry of the socket is overwritten.
SecureJoinRoom(c, username, room) ==
    /\ secure.process = "running"
    /\ secure.conn[c].state = "open"
    /\ LET lst == [type |-> "joinRoom", socket |-> c]
       IN IF ~isValidUsername(username) \/ ~isValidRoomName(room)
          THEN secure' = [secure EXCEPT
                             !.last = lst,
                             !.out = << Emit("error", {c},
                                             "Invalid username or room name") >>]
          ELSE /\ secure.nextUser \in SecureUserIds
               /\ LET sanitizedUsername == sanitizeInput(username)
                      sanitizedRoom == sanitizeInput(room)
                      userId == secure.nextUser
                      st == secureAddUser(SecureStorage(secure), userId,
                                          sanitizedUsername, sanitizedRoom, c)
                      sio == [secure.sio EXCEPT ![c] = @ \cup {sanitizedRoom}]
                      open == SecureOpen(secure)
                  IN secure' =
                       [secure EXCEPT
                          !.users = st.users,
                          !.rooms = st.rooms,
                          !.sockets = st.sockets,
                          !.sio = sio,
                          !.nextUser = @ + 1,
                          !.last = lst,
                          !.out =
                             << Emit("message", {c},
                                     SystemMessage("welcome",
                                        sanitizedRoom \o sanitizedUsername)),
                                Emit("message",
                                     SocketTo(sio, open, c, sanitizedRoom),
                                     SystemMessage("joined", sanitizedUsername)),
                                Emit("roomHistory", {c},
                                     getRoomMessages(st, sanitizedRoom)),
                                Emit("onlineUsers", IoTo(sio, open, sanitizedRoom),
                                     getUsersInRoom(st, sanitizedRoom)) >>]
    /\ BaseUnchanged

\* socket.on('sendMessage') of server-secure.js.  messageLimiter is created
\* (lines 61-67) but attached to no route and to no socket event: the handler
\* asks no limiter.
SecureSendMessage(c, message) ==
    /\ secure.process = "running"
    /\ secure.conn[c].state = "open"
    /\ LET user == getUserBySocketId(SecureStorage(secure), c)
           sanitizedMessage == sanitizeInput(message)
           lst == [type |-> "sendMessage", socket |-> c]
       IN IF user = NoUser
          THEN secure' = [secure EXCEPT
                             !.last = lst,
                             !.out = << Emit("error", {c}, "User not found") >>]
          ELSE IF ~Truthy(message)
          THEN secure' = [secure EXCEPT
                             !.last = lst,
                             !.out = << Emit("error", {c}, "Invalid message") >>]
          ELSE IF Len(sanitizedMessage) = 0 \/ Len(sanitizedMessage) > MaxBody
          THEN secure' = [secure EXCEPT
                             !.last = lst,
                             !.out = << Emit("error", {c},
                                             "Message length invalid") >>]
          ELSE /\ secure.nextId <= MaxSecureMsgs
               /\ LET messageObj == [id |-> secure.nextId,
                                     username |-> user.username,
                                     message |-> sanitizedMessage,
                                     type |-> "user"]
                  IN secure' =
                       [secure EXCEPT
                          !.rooms = secureAddMessage(@, user.room, messageObj),
                          !.sent[c] = @ + 1,
                          !.nextId = @ + 1,
                          !.last = lst,
                          !.out = << Emit("message",
                                          IoTo(secure.sio, SecureOpen(secure),
                                               user.room),
                                          messageObj) >>]
    /\ BaseUnchanged

\* socket.on('typing') of server-secure.js.
SecureTyping(c, isTyping) ==
    /\ secure.process = "running"
    /\ secure.conn[c].state = "open"
    /\ LET user == getUserBySocketId(SecureStorage(secure), c)
           lst == [type |-> "typing", socket |-> c]
       IN IF user = NoUser
          THEN secure' = [secure EXCEPT !.last = lst, !.out = <<>>]
          ELSE LET r == setTyping(SecureStorage(secure), user.id, user.room,
                                  isTyping)
               IN secure' =
                    [secure EXCEPT
                       !.typingUsers = r.typingUsers,
                       !.last = lst,
                       !.out = << Emit("typing",
                                       SocketTo(secure.sio, SecureOpen(secure),
                                                c, user.room),
                                       TypingPayload(r.list, user)) >>]
    /\ BaseUnchanged

\* socket.on('disconnect') of server-secure.js: registered for accepted
\* connections only; socket.io has taken the socket out of its rooms before
\* the handler runs.
SecureDisconnect(c) ==
    /\ secure.process = "running"
    /\ secure.conn[c].state = "open"
    /\ LET r == removeUser(SecureStorage(secure), c)
           user == r.user
           sio == [secure.sio EXCEPT ![c] = {}]
           open == SecureOpen(secure) \ {c}
       IN secure' =
            [secure EXCEPT
               !.users = r.st.users,
               !.rooms = r.st.rooms,
               !.sockets = r.st.sockets,
               !.typingUsers = r.st.typingUsers,
               !.sio = sio,
               !.ipConnections = untrackConnection(@, secure.conn[c].ip),
               !.conn[c].state = "closed",
               !.sent[c] = 0,
               !.last = [type |-> "disconnect", socket |-> c],
               !.out = IF user = NoUser THEN <<>>
                       ELSE << Emit("message",
                                    SocketTo(sio, open, c, user.room),
                                    SystemMessage("left", user.username)),
                               Emit("onlineUsers",
                                    SocketTo(sio, open, c, user.room),
                                    getUsersInRoom(r.st, user.room)) >>]
    /\ BaseUnchanged

\* socket.on('leaveRoom') of server-secure.js: the connection stays open and
\* counted.
SecureLeaveRoom(c) ==
    /\ secure.process = "running"
    /\ secure.conn[c].state = "open"
    /\ LET r == removeUser(SecureStorage(secure), c)
           user == r.user
           sio == IF user = NoUser THEN secure.sio
                  ELSE [secure.sio EXCEPT ![c] = @ \ {user.room}]
           open == SecureOpen(secure)
       IN secure' =
            [secure EXCEPT
               !.users = r.st.users,
               !.rooms = r.st.rooms,
               !.sockets = r.st.sockets,
               !.typingUsers = r.st.typingUsers,
               !.sio = sio,
               !.last = [type |-> "leaveRoom", socket |-> c],
               !.out = IF user = NoUser THEN <<>>
                       ELSE << Emit("message",
                                    SocketTo(sio, open, c, user.room),
                                    SystemMessage("left", user.username)),
                               Emit("onlineUsers",
                                    SocketTo(sio, open, c, user.room),
                                    getUsersInRoom(r.st, user.room)),
                               Emit("leftRoom", {c}, <<>>) >>]
    /\ BaseUnchanged

\* joinRoom, sendMessage or typing sent to the hardened server with no
\* argument: the parameter pattern is bound before the try block is entered,
\* so the TypeError leaves the listener uncaught.  server-secure.js installs
\* no uncaughtException handler: the process exits, and with it the storage
\* and every connection.
SecureNoArgument(c, event) ==
    /\ secure.process = "running"
    /\ secure.conn[c].state = "open"
    /\ secure' =
         [SecureInit EXCEPT
            !.conn = [d \in SecureSockets |->
                        [state |-> "closed", ip |-> secure.conn[d].ip]],
            !.process = "crashed",
            !.last = [type |-> "malformed", event |-> event, socket |-> c]]
    /\ BaseUnchanged

\* One window of the rate limit has passed: the counts start again.
WindowElapses ==
    /\ secure.process = "running"
    /\ \E c \in SecureSockets : secure.sent[c] > 0
    /\ secure' = [secure EXCEPT !.sent = [c \in SecureSockets |-> 0],
                                !.last = [type |-> "window"],
                                !.out = <<>>]
    /\ BaseUnchanged

\* ---------------------------------------------------------------- client input
\* The values the textarea of MessageInput.tsx may hold.
ClientTexts == { <<>>, <<SP>>, <<"h">>, <<"h", SP>>, <<SP, "h">> }

\* The bounds of the App model: the user messages the server accepts, the
\* events a socket holds towards the server when the client emits the next
\* one (the server emits towards the client while fewer of its packets wait
\* there; one handler's emits are queued together), the connections the
\* server opens for the client's sockets, and the entries of the client's
\* message list at which the other member stops joining and leaving, and
\* the further connections from the client's address.
MaxAppMsgs == 2
MaxQueue == 1
MaxAppSockets == 2
MaxAppList == 3
MaxOthers == 1

\* No timer pending: typingTimeoutRef.current is null, cleared or has fired.
NoTimer == -1

\* socketService.setTyping and socketService.sendMessage: what the client
\* hands to its socket.
TypingEvent(isTyping) == [event |-> "typing", isTyping |-> isTyping]
SendEvent(message) == [event |-> "sendMessage", message |-> message]

ClientInit ==
    [mounted |-> FALSE,
     disabled |-> FALSE,
     message |-> <<>>,
     isTyping |-> FALSE,
     timer |-> NoTimer,
     sinceKey |-> 0,
     open |-> FALSE,
     last |-> "init",
     out |-> <<>>]

\* History: whether the typing event emitted last, over the emits of out, is a
\* typing(true); without a typing event in out it is as before.
RECURSIVE OpenAfter(_, _)
OpenAfter(open, out) ==
    IF out = <<>> THEN open
    ELSE OpenAfter(IF Head(out).event = "typing" THEN Head(out).isTyping
                   ELSE open,
                   Tail(out))

\* The client state cl with the history of its emits brought up to date.
Emitted(cl) == [cl EXCEPT !.open = OpenAfter(@, cl.out)]

\* handleTypingIndicator that leaves a pending timer running instead of
\* starting the countdown again.
handleTypingIndicatorKeepsTimer(cl, typing) ==
    IF cl.disabled THEN cl
    ELSE [cl EXCEPT
            !.isTyping = typing,
            !.timer = IF typing
                      THEN IF cl.timer = NoTimer THEN TypingExpiry ELSE cl.timer
                      ELSE NoTimer,
            !.out = IF typing /\ ~cl.isTyping
                    THEN Append(cl.out, TypingEvent(TRUE))
                    ELSE IF ~typing THEN Append(cl.out, TypingEvent(FALSE))
                    ELSE cl.out]

\* handleTypingIndicator: typing(true) is emitted when typing starts; the
\* pending timer is cleared; then either the countdown is started again or
\* typing(false) is emitted at once.
handleTypingIndicator(cl, typing) ==
    IF cl.disabled THEN cl
    ELSE [cl EXCEPT
            !.isTyping = typing,
            !.timer = IF typing THEN TypingExpiry ELSE NoTimer,
            !.out = IF typing /\ ~cl.isTyping
                    THEN Append(cl.out, TypingEvent(TRUE))
                    ELSE IF ~typing THEN Append(cl.out, TypingEvent(FALSE))
                    ELSE cl.out]

\* The chat room is shown: MessageInput is mounted with its initial state.
Mount ==
    /\ ~client.mounted
    /\ client' = [ClientInit EXCEPT !.mounted = TRUE, !.last = "mount",
                                   !.open = client.open]
    /\ UNCHANGED << users, rooms, sockets, typingUsers, status, sioRooms,
                    nextUser, nextMsg, last, outbox, lastOnline, accepted,
                    typingAge, typingDue, process, received, secure, app >>

\* The cleanup of the unmount effect: the pending timer is cleared and nothing
\* is emitted.
Unmount ==
    /\ client.mounted
    /\ client' = [ClientInit EXCEPT !.last = "unmount", !.open = client.open]
    /\ UNCHANGED << users, rooms, sockets, typingUsers, status, sioRooms,
                    nextUser, nextMsg, last, outbox, lastOnline, accepted,
                    typingAge, typingDue, process, received, secure, app >>

\* ChatRoom passes disabled = !!error: an error is shown or dismissed.
SetDisabled(d) ==
    /\ client.mounted
    /\ client.disabled /= d
    /\ client' = [client EXCEPT !.disabled = d, !.last = "disabled", !.out = <<>>]
    /\ UNCHANGED << users, rooms, sockets, typingUsers, status, sioRooms,
                    nextUser, nextMsg, last, outbox, lastOnline, accepted,
                    typingAge, typingDue, process, received, secure, app >>

\* handleInputChange: a keystroke changed the text to value.  The textarea
\* takes no input while it is disabled.
InputChange(value) ==
    /\ client.mounted
    /\ ~client.disabled
    /\ value /= client.message
    /\ client' = Emitted(handleTypingIndicator(
                    [client EXCEPT !.message = value, !.sinceKey = 0,
                                   !.last = "change", !.out = <<>>],
                    Len(Trim(value)) > 0))
    /\ UNCHANGED << users, rooms, sockets, typingUsers, status, sioRooms,
                    nextUser, nextMsg, last, outbox, lastOnline, accepted,
                    typingAge, typingDue, process, received, secure, app >>

\* sendMessage of MessageInput.tsx, by the form or by Enter: blank text is
\* not sent; otherwise the trimmed text is handed over, the field is emptied
\* and the typing indicator is cleared.
ClientSend ==
    /\ client.mounted
    /\ ~client.disabled
    /\ LET trimmedMessage == Trim(client.message)
       IN IF Len(trimmedMessage) = 0
          THEN client' = [client EXCEPT !.last = "send", !.out = <<>>]
          ELSE client' = Emitted(handleTypingIndicator(
                            [client EXCEPT
                               !.message = <<>>,
                               !.last = "send",
                               !.out = << SendEvent(trimmedMessage) >>],
                            FALSE))
    /\ UNCHANGED << users, rooms, sockets, typingUsers, status, sioRooms,
                    nextUser, nextMsg, last, outbox, lastOnline, accepted,
                    typingAge, typingDue, process, received, secure, app >>

\* The callback of the typing timer runs when its delay has passed.
TimerFires ==
    /\ client.timer = 0
    /\ client' = Emitted([client EXCEPT !.isTyping = FALSE,
                                        !.timer = NoTimer,
                                        !.last = "timeout",
                                        !.out = << TypingEvent(FALSE) >>])
    /\ UNCHANGED << users, rooms, sockets, typingUsers, status, sioRooms,
                    nextUser, nextMsg, last, outbox, lastOnline, accepted,
                    typingAge, typingDue, process, received, secure, app >>

\* The client's clock advances by one tick; a timer that is due runs before
\* the clock moves on.
ClientTick ==
    /\ client.mounted
    /\ client.timer /= 0
    /\ client.sinceKey < MaxAge
    /\ client' = [client EXCEPT
                    !.sinceKey = @ + 1,
                    !.timer = IF @ = NoTimer THEN NoTimer ELSE @ - 1,
                    !.last = "tick",
                    !.out = <<>>]
    /\ UNCHANGED << users, rooms, sockets, typingUsers, status, sioRooms,
                    nextUser, nextMsg, last, outbox, lastOnline, accepted,
                    typingAge, typingDue, process, received, secure, app >>

\* ---------------------------------------------------------------- client App
\* App (src/unnamed/part_000) with its Login form and socketService, talking
\* to server-secure.js.  For the names the Login form lets through the
\* handlers of server.js emit the same events in the same order.  The room's
\* other member connects from another address.

\* The events App registers a handler for.
AppEvents == {"message", "roomHistory", "onlineUsers", "typing", "leftRoom",
              "error"}

\* An event in flight from the server to the client's socket.
AppEvent(event, payload) == [event |-> event, payload |-> payload]

\* An event in flight from one of the client's connections to the server;
\* "disconnect" is the packet socket.disconnect() sends.
ToServer(event) == [event |-> event]
JoinToServer(username, room) ==
    [event |-> "joinRoom", username |-> username, room |-> room]
SendToServer(message) == [event |-> "sendMessage", message |-> Trim(message)]
TypingToServer(isTyping) == [event |-> "typing", isTyping |-> isTyping]

\* The system notices of joinRoom, leaveRoom and disconnect, and a user
\* message, as the client lists them.
SystemNotice(kind) == [id |-> 0, type |-> "system", message |-> kind]
Welcome == SystemNotice("welcome")
PeerMessageOf(id) == [id |-> id, type |-> "user"]

\* The message texts the chat room hands to handleSendMessage.
AppTexts == { <<"h", SP>>, <<SP>> }

\* What the user may have typed into the Login form when it is submitted.
FormUserInputs == { <<"A", "l">>, <<"A", "l", SP>>, <<"A">> }
FormRoomInputs == { <<"g", "g">>, <<"g", "!">> }

\* The connections the server opens for the client's sockets, and the other
\* member of the room as the server's typing store names it.
AppSocketIds == 1..MaxAppSockets
Peer == MaxAppSockets + 1

\* No names: handleLogin has not been called.
NoNames == [username |-> <<>>, room |-> <<>>]

\* The state useState gives a new App: the login screen, nothing loading.
AppState ==
    [isConnected |-> FALSE,
     currentUser |-> FALSE,
     messages |-> <<>>,
     onlineUsers |-> "none",
     typingUsers |-> {},
     error |-> "none",
     isLoading |-> FALSE]

\* App and socketService after construction.  The client's side:
\* socketService.socket is null (held = FALSE) until connect() is called;
\* socket is the connection of the socket object held (0: it has had none);
\* up is socket.connected; retry holds while socket.io-client goes on trying
\* to connect the socket object by itself; waiting holds while handleLogin is
\* suspended at the await of connect(), names being its arguments; buffer
\* holds what was emitted while the socket was not connected.  The server's
\* side: made counts the connections it has opened for the client; for each
\* of them the events in flight to the server, whether the server holds the
\* connection with its handlers (served) and an identity for it; others
\* counts the further connections from the client's address; whether the
\* other member is in the room; the members in the room's typing set; the
\* room's log.  inbox holds the packets in flight to the socket object held:
\* the CONNECT packet of a connection the server has opened for it, and the
\* events and the disconnect that follow.
AppInit ==
    [mounted |-> FALSE,
     held |-> FALSE,
     socket |-> 0,
     made |-> 0,
     up |-> FALSE,
     retry |-> FALSE,
     waiting |-> FALSE,
     names |-> NoNames,
     buffer |-> <<>>,
     listeners |-> {},
     isConnected |-> AppState.isConnected,
     currentUser |-> AppState.currentUser,
     messages |-> AppState.messages,
     onlineUsers |-> AppState.onlineUsers,
     typingUsers |-> AppState.typingUsers,
     error |-> AppState.error,
     isLoading |-> AppState.isLoading,
     toServer |-> [k \in AppSocketIds |-> <<>>],
     inbox |-> <<>>,
     served |-> [k \in AppSocketIds |-> FALSE],
     identity |-> [k \in AppSocketIds |-> FALSE],
     others |-> 0,
     peerIn |-> FALSE,
     typing |-> {},
     log |-> <<>>,
     nextId |-> 1,
     last |-> [type |-> "init"]]

\* socketService.onMessage ... onError: the callback is attached to the socket
\* there is; with no socket the call does nothing.
SocketOn(a, event) ==
    IF a.held THEN [a EXCEPT !.listeners = @ \cup {event}] ELSE a

\* setupSocketListeners of App's mount effect.
setupSocketListeners(a) ==
    SocketOn(SocketOn(SocketOn(SocketOn(SocketOn(SocketOn(a,
        "message"), "roomHistory"), "onlineUsers"), "typing"), "leftRoom"),
        "error")

\* The callbacks App passes to socketService.
AppHandler(a, ev) ==
    CASE ev.event = "message" ->
            [a EXCEPT !.messages = Append(@, ev.payload)]
      [] ev.event = "roomHistory" ->
            [a EXCEPT !.messages = ev.payload]
      [] ev.event = "onlineUsers" ->
            [a EXCEPT !.onlineUsers = ev.payload]
      [] ev.event = "typing" ->
            [a EXCEPT !.typingUsers = ev.payload]
      [] ev.event = "leftRoom" ->
            [a EXCEPT !.currentUser = FALSE, !.messages = <<>>,
                      !.onlineUsers = "none", !.typingUsers = {}]
      [] ev.event = "error" ->
            [a EXCEPT !.error = ev.payload, !.isLoading = FALSE]

\* The chat room is rendered instead of the login screen.
ChatRoomShown(a) == a.isConnected /\ a.currentUser

\* The server's variables and the message input, which App does not touch.
AppUnchanged ==
    UNCHANGED << users, rooms, sockets, typingUsers, status, sioRooms,
                 nextUser, nextMsg, last, outbox, lastOnline, accepted,
                 typingAge, typingDue, process, received, secure, client >>

\* The events in flight from the connection of the socket the client holds,
\* and whether the server holds an identity for that connection.
SessionQueue(a) == IF a.socket = 0 THEN <<>> ELSE a.toServer[a.socket]
SessionIdentity(a) == a.socket /= 0 /\ a.identity[a.socket]

\* The connection the server has opened for the socket the client holds and
\* whose CONNECT packet is still in flight (0: none), and the connection
\* whose packets travel to that socket: the one being opened if there is
\* one, the one the client knows otherwise.
Pending(a) ==
    IF a.inbox /= <<>> /\ Head(a.inbox).event = "connect"
    THEN Head(a.inbox).payload ELSE 0
Inbound(a) == IF Pending(a) /= 0 THEN Pending(a) ELSE a.socket
InboundIdentity(a) == Inbound(a) /= 0 /\ a.identity[Inbound(a)]

\* The socket the client holds is trying to connect: connect() is awaited,
\* or socket.io-client is connecting it again.
Connecting(a) == a.held /\ ~a.up /\ (a.waiting \/ a.retry)

\* The sendMessage events of a queue, and of the queues of the connections
\* 1..k.
RECURSIVE Sends(_)
Sends(q) ==
    IF q = <<>> THEN 0
    ELSE (IF Head(q).event = "sendMessage" THEN 1 ELSE 0) + Sends(Tail(q))

RECURSIVE SendsOf(_, _)
SendsOf(a, k) == IF k = 0 THEN 0 ELSE Sends(a.toServer[k]) + SendsOf(a, k - 1)

\* storage.ipConnections of the client's address: the client's connections
\* the server holds and the further ones from that address.
AppConnections(a) ==
    a.others + Cardinality({k \in AppSocketIds : a.served[k]})

\* The check of the connection handler: trackConnection(clientIP) counts the
\* new connection in, and over the limit it is refused.
OverLimit(a) == AppConnections(a) + 1 > MaxConnectionsPerIP

\* The events of an emit that reach the socket the client holds.
ToSession(a, reaches, events) ==
    IF reaches THEN [a EXCEPT !.inbox = @ \o events] ELSE a

\* The typing event a member's typing handler sends to the others: the
\* typing list of the room without the sender.
TypingFor(a, sender) == AppEvent("typing", a.typing \ {sender})

\* A member is taken off the room by leaveRoom or disconnect: removeUser
\* drops it from the typing set, and the other members are sent the left
\* notice and the online users.
Departs(a, who) ==
    ToSession([a EXCEPT !.typing = @ \ {who}],
              who /= Inbound(a) /\ InboundIdentity(a),
              << AppEvent("message", SystemNotice("left")),
                 AppEvent("onlineUsers", "list") >>)

\* A member's joinRoom: the welcome notice and the room history go to the
\* joiner, the joined notice to the other members, the online users to all.
Arrives(a, who) ==
    LET own == Inbound(a) /= 0 /\ who = Inbound(a)
        rest == who /= Inbound(a) /\ InboundIdentity(a)
        a1 == ToSession(a, own, << AppEvent("message", Welcome) >>)
        a2 == ToSession(a1, rest,
                        << AppEvent("message", SystemNotice("joined")) >>)
        a3 == ToSession(a2, own, << AppEvent("roomHistory", a.log) >>)
    IN ToSession(a3, own \/ rest, << AppEvent("onlineUsers", "list") >>)

\* A member's accepted sendMessage: logged and emitted to the room.
Speaks(a) ==
    LET m == PeerMessageOf(a.nextId)
        pushed == Append(a.log, m)
    IN ToSession([a EXCEPT !.log = IF Len(pushed) > MaxSecureLog
                                   THEN SliceLast(pushed, MaxSecureLog)
                                   ELSE pushed,
                           !.nextId = @ + 1],
                 InboundIdentity(a), << AppEvent("message", m) >>)

\* A member's typing: the typing set is updated and the list, without the
\* sender, is sent to the other members.
Types(a, who, isTyping) ==
    LET a1 == [a EXCEPT !.typing = IF isTyping THEN @ \cup {who}
                                   ELSE @ \ {who}]
    IN ToSession(a1, who /= Inbound(a) /\ InboundIdentity(a),
                 << TypingFor(a1, who) >>)

\* An error event sent to connection k.
ErrorTo(a, k, message) ==
    ToSession(a, k = Inbound(a), << AppEvent("error", message) >>)

\* What the server does with one event of connection k of the client.  A
\* connection the server does not hold (refused, or closed) has no handler:
\* its events are ignored.
ServerStep(a, k, ev) ==
    IF ~a.served[k] THEN a
    ELSE CASE ev.event = "joinRoom" ->
                 IF ~isValidUsername(ev.username) \/ ~isValidRoomName(ev.room)
                 THEN ErrorTo(a, k, "Invalid username or room name")
                 ELSE Arrives([a EXCEPT !.identity[k] = TRUE], k)
           [] ev.event = "sendMessage" ->
                 IF ~a.identity[k] THEN ErrorTo(a, k, "User not found")
                 ELSE IF ~Truthy(ev.message)
                      THEN ErrorTo(a, k, "Invalid message")
                 ELSE IF Len(sanitizeInput(ev.message)) = 0
                         \/ Len(sanitizeInput(ev.message)) > MaxBody
                      THEN ErrorTo(a, k, "Message length invalid")
                 ELSE Speaks(a)
           [] ev.event = "typing" ->
                 IF a.identity[k] THEN Types(a, k, ev.isTyping) ELSE a
           [] ev.event = "leaveRoom" ->
                 IF a.identity[k]
                 THEN ToSession(Departs([a EXCEPT !.identity[k] = FALSE], k),
                                k = Inbound(a),
                                << AppEvent("leftRoom", "none") >>)
                 ELSE a
           [] ev.event = "disconnect" ->
                 IF a.identity[k]
                 THEN Departs([a EXCEPT !.identity[k] = FALSE,
                                        !.served[k] = FALSE], k)
                 ELSE [a EXCEPT !.served[k] = FALSE]

\* The server's connection handler for a new connection of the socket the
\* client holds, run after the CONNECT packet is sent: the connection is
\* counted and served, or, over the limit of its address, the server emits
\* an error, disconnects it and registers no handler.  What was in flight
\* to the socket's earlier connection is lost.
OnConnection(a) ==
    LET k == a.made + 1
        opened == [a EXCEPT !.made = k]
    IN IF OverLimit(a)
       THEN [opened EXCEPT
                !.inbox = << AppEvent("connect", k),
                             AppEvent("error", "Connection limit exceeded"),
                             AppEvent("disconnect", "server") >>]
       ELSE [opened EXCEPT !.served[k] = TRUE,
                           !.inbox = << AppEvent("connect", k) >>]

\* The CONNECT packet reaches the socket the client holds: the socket is
\* connected and sends what it has buffered.
Connects(a) ==
    LET k == Pending(a)
    IN [a EXCEPT !.socket = k,
                 !.up = TRUE,
                 !.retry = FALSE,
                 !.toServer[k] = a.buffer,
                 !.buffer = <<>>,
                 !.inbox = Tail(a.inbox)]

\* App is mounted: a new component with the state of useState, whose effect
\* runs setupSocketListeners once.
AppMount ==
    /\ ~app.mounted
    /\ app' = [setupSocketListeners(app) EXCEPT
                  !.mounted = TRUE, !.last = [type |-> "step"]]
    /\ AppUnchanged

\* App is unmounted: the effect's cleanup calls removeAllListeners() and
\* disconnect(), which closes the socket for good (a connected socket sends
\* its disconnect packet after what it has sent) and sets
\* socketService.socket to null.  A handleLogin suspended at connect() is
\* never resumed, and the component's state is gone.
AppUnmount ==
    /\ app.mounted
    /\ app' = [app EXCEPT
                  !.mounted = FALSE,
                  !.held = FALSE,
                  !.socket = 0,
                  !.up = FALSE,
                  !.retry = FALSE,
                  !.waiting = FALSE,
                  !.names = NoNames,
                  !.buffer = <<>>,
                  !.listeners = {},
                  !.isConnected = AppState.isConnected,
                  !.currentUser = AppState.currentUser,
                  !.messages = AppState.messages,
                  !.onlineUsers = AppState.onlineUsers,
                  !.typingUsers = AppState.typingUsers,
                  !.error = AppState.error,
                  !.isLoading = AppState.isLoading,
                  !.toServer = IF app.up
                               THEN [@ EXCEPT ![app.socket] =
                                        Append(@, ToServer("disconnect"))]
                               ELSE @,
                  !.last = [type |-> "step"]]
    /\ AppUnchanged

\* The rest of handleLogin after connect(): joinRoom is emitted on the
\* connected socket and the state is set to the chat room.
JoinAndShow(a) ==
    [a EXCEPT !.toServer[a.socket] =
                  Append(@, JoinToServer(a.names.username, a.names.room)),
              !.isConnected = TRUE,
              !.currentUser = TRUE,
              !.messages = <<>>,
              !.onlineUsers = "none",
              !.typingUsers = {},
              !.isLoading = FALSE]

\* validateForm of the Login form: both fields, trimmed, hold 2 to 20 (30)
\* characters of /^[a-zA-Z0-9_\s]+$/.
validField(text, longest) ==
    LET t == Trim(text)
    IN /\ Truthy(t)
       /\ Len(t) >= MinNameLen
       /\ Len(t) <= longest
       /\ \A i \in 1..Len(t) : t[i] \in NameChars

validateForm(username, room) ==
    validField(username, MaxUsernameLen) /\ validField(room, MaxRoomLen)

\* handleLogin up to its await.  With a connected socket nothing is awaited
\* and the handler runs to its end; without, connect() replaces
\* socketService.socket by a new socket and the handler is suspended until
\* the connection attempt is settled.  What is in flight to the socket that
\* is replaced reaches no one.
HandleLogin(username, room) ==
    LET a == [app EXCEPT !.names = [username |-> username, room |-> room],
                         !.error = "none"]
    IN IF app.up
       THEN /\ Len(SessionQueue(app)) < MaxQueue
            /\ app' = [JoinAndShow(a) EXCEPT
                          !.last = [type |-> "step"]]
       ELSE app' = [a EXCEPT
                       !.isLoading = TRUE,
                       !.held = TRUE,
                       !.socket = 0,
                       !.retry = FALSE,
                       !.buffer = <<>>,
                       !.listeners = {},
                       !.waiting = TRUE,
                       !.inbox = <<>>,
                       !.last = [type |-> "step"]]

\* handleSubmit of the Login form, rendered while the chat room is not: it
\* submits nothing while isLoading, and calls handleLogin with the trimmed
\* fields when they pass validateForm.
LoginSubmit(username, room) ==
    /\ app.mounted
    /\ ~ChatRoomShown(app)
    /\ ~app.isLoading
    /\ validateForm(username, room)
    /\ HandleLogin(Trim(username), Trim(room))
    /\ AppUnchanged

\* The connection attempt of the socket the client holds reaches the server:
\* io.on('connection') runs for a new connection, for which the server holds
\* no identity.
ServerConnects ==
    /\ Connecting(app)
    /\ Pending(app) = 0
    /\ app.made < MaxAppSockets
    /\ app' = [OnConnection(app) EXCEPT !.last = [type |-> "step"]]
    /\ AppUnchanged

\* The connection attempt of connect() is settled and handleLogin resumes.
\* failed: the attempt did not reach the server, 'connect_error' rejects the
\* promise and the catch block stores the error, while the socket goes on
\* trying.  open: the CONNECT packet arrives, 'connect' resolves the promise
\* and the handler runs to its end.
ConnectSettles(outcome) ==
    /\ app.waiting
    /\ IF outcome = "failed"
       THEN /\ Pending(app) = 0
            /\ app' = [app EXCEPT
                          !.waiting = FALSE,
                          !.retry = TRUE,
                          !.error = "Failed to connect",
                          !.isLoading = FALSE,
                          !.last = [type |-> "step"]]
       ELSE /\ Pending(app) /= 0
            /\ app' = [JoinAndShow(Connects(app)) EXCEPT
                          !.waiting = FALSE,
                          !.last = [type |-> "step"]]
    /\ AppUnchanged

\* socket.io-client has connected the socket again after a lost connection
\* or a failed attempt: the CONNECT packet arrives and the callback of
\* connect() writes a log line.
Reconnect ==
    /\ Connecting(app)
    /\ ~app.waiting
    /\ Pending(app) /= 0
    /\ app' = [Connects(app) EXCEPT
                  !.last = [type |-> "step"]]
    /\ AppUnchanged

\* What socketService emits on the socket it holds: sent at once on a
\* connected socket, kept in the socket's buffer otherwise.
EmitOn(a, ev) ==
    IF a.up THEN [a EXCEPT !.toServer[a.socket] = Append(@, ev)]
    ELSE [a EXCEPT !.buffer = Append(@, ev)]

\* Room on the socket for one more emit.
CanEmit(a) ==
    IF a.up THEN Len(SessionQueue(a)) < MaxQueue ELSE Len(a.buffer) < MaxQueue

\* handleLogout: leaveRoom is emitted when the socket is connected, and the
\* state is reset to the login screen.
HandleLogout ==
    /\ app.mounted
    /\ ChatRoomShown(app)
    /\ app.up => CanEmit(app)
    /\ app' = [(IF app.up THEN EmitOn(app, ToServer("leaveRoom")) ELSE app)
                  EXCEPT
                  !.isConnected = FALSE,
                  !.currentUser = FALSE,
                  !.messages = <<>>,
                  !.onlineUsers = "none",
                  !.typingUsers = {},
                  !.error = "none",
                  !.last = [type |-> "step"]]
    /\ AppUnchanged

\* handleSendMessage, called by the chat room: socketService.sendMessage
\* emits the trimmed text unless it is blank.
HandleSendMessage(message) ==
    /\ app.mounted
    /\ ChatRoomShown(app)
    /\ CanEmit(app)
    /\ app.nextId + SendsOf(app, MaxAppSockets) + Sends(app.buffer)
          <= MaxAppMsgs
    /\ app' = [(IF app.held /\ Truthy(Trim(message))
                THEN EmitOn(app, SendToServer(message)) ELSE app) EXCEPT
                  !.last = [type |-> "step"]]
    /\ AppUnchanged

\* handleTyping, called by the chat room: socketService.setTyping emits
\* typing.
HandleTyping(isTyping) ==
    /\ app.mounted
    /\ ChatRoomShown(app)
    /\ CanEmit(app)
    /\ app' = [(IF app.held THEN EmitOn(app, TypingToServer(isTyping))
                ELSE app) EXCEPT
                  !.last = [type |-> "step"]]
    /\ AppUnchanged

\* clearError, called by the login form when a field is edited and by the
\* dismiss button of the chat room.
ClearError ==
    /\ app.mounted
    /\ app.error /= "none"
    /\ app' = [app EXCEPT !.error = "none", !.last = [type |-> "step"]]
    /\ AppUnchanged

\* The server handles the next event connection k of the client has sent.
ServerHandles(k) ==
    /\ app.toServer[k] /= <<>>
    /\ Len(app.inbox) < MaxQueue
    /\ LET ev == Head(app.toServer[k])
       IN app' = [ServerStep(app, k, ev) EXCEPT
                     !.toServer[k] = Tail(app.toServer[k]),
                     !.last = [type |-> "step"]]
    /\ AppUnchanged

\* Another connection from the client's address is opened (another tab, or
\* a socket the client has replaced and that connects again): it is counted
\* unless it is over the limit.
OtherConnects ==
    /\ app.others < MaxOthers \/ OverLimit(app)
    /\ app' = [app EXCEPT
                  !.others = IF OverLimit(app) THEN @ ELSE @ + 1,
                  !.last = [type |-> "step"]]
    /\ AppUnchanged

\* Such a connection is closed: untrackConnection counts it out.
OtherDisconnects ==
    /\ app.others > 0
    /\ app' = [app EXCEPT !.others = @ - 1,
                          !.last = [type |-> "step"]]
    /\ AppUnchanged

\* Another member joins the room.
PeerJoin ==
    /\ ~app.peerIn
    /\ Len(app.inbox) < MaxQueue
    /\ Len(app.messages) < MaxAppList
    /\ app' = [Arrives([app EXCEPT !.peerIn = TRUE], Peer) EXCEPT
                  !.last = [type |-> "step"]]
    /\ AppUnchanged

\* The server accepts a message of the other member of the room: it is
\* logged and emitted to the room, so to the client's socket while it has an
\* identity.
PeerMessage ==
    /\ app.peerIn
    /\ app.nextId + SendsOf(app, MaxAppSockets) + Sends(app.buffer)
          <= MaxAppMsgs
    /\ Len(app.inbox) < MaxQueue
    /\ app' = [Speaks(app) EXCEPT !.last = [type |-> "step"]]
    /\ AppUnchanged

\* The other member types or stops typing.
PeerTyping(isTyping) ==
    /\ app.peerIn
    /\ Len(app.inbox) < MaxQueue
    /\ app' = [Types(app, Peer, isTyping) EXCEPT
                  !.last = [type |-> "step"]]
    /\ AppUnchanged

\* The other member leaves the room or disconnects: the server's handlers
\* send the remaining members the same events.
PeerLeave ==
    /\ app.peerIn
    /\ Len(app.inbox) < MaxQueue
    /\ Len(app.messages) < MaxAppList
    /\ app' = [Departs([app EXCEPT !.peerIn = FALSE], Peer) EXCEPT
                  !.last = [type |-> "step"]]
    /\ AppUnchanged

\* The next packet in flight, other than the CONNECT packet of a socket that
\* is connecting, arrives at the client's socket: a connected socket runs
\* the callback attached for it; a packet nothing is attached for, or that
\* arrives after the socket was closed, is dropped.  The server's disconnect
\* closes the socket, which does not connect again by itself, and
\* socketService's own callback writes a log line.
Receive ==
    /\ app.inbox /= <<>>
    /\ ~(Pending(app) /= 0 /\ Connecting(app))
    /\ LET ev == Head(app.inbox)
           handled == app.up /\ ev.event \in app.listeners
           after == IF ev.event = "disconnect" /\ app.up
                    THEN [app EXCEPT !.up = FALSE, !.retry = FALSE]
                    ELSE IF handled THEN AppHandler(app, ev) ELSE app
       IN app' = [after EXCEPT
                     !.inbox = Tail(app.inbox),
                     !.last = [type |-> "receive", event |-> ev.event,
                               handled |-> handled]]
    /\ AppUnchanged

\* The connection is lost and the client notices: its disconnect callback
\* writes a log line, and socket.io-client starts to reconnect.
ConnectionLost ==
    /\ app.up
    /\ app' = [app EXCEPT !.up = FALSE, !.retry = TRUE,
                          !.last = [type |-> "step"]]
    /\ AppUnchanged

\* The connection k is lost and the server notices: its disconnect handler
\* counts the connection out, removes the identity and tells the room.  What
\* the connection had in flight is lost.
ServerNoticesLoss(k) ==
    /\ app.served[k]
    /\ Len(app.inbox) < MaxQueue
    /\ app' = [ServerStep(app, k, ToServer("disconnect")) EXCEPT
                  !.toServer[k] = <<>>,
                  !.last = [type |-> "step"]]
    /\ AppUnchanged

\* The callbacks of setupSocketListeners, handleLogin and the server's
\* handlers as functions of their arguments: App after handleLogin has run
\* to its end on a connected socket that carries the six callbacks.  The
\* username handleLogin was called with is one the server accepts or one it
\* rejects (the Login form hands on the former only), and the room holds any
\* log.
CallbackNames ==
    { [username |-> u, room |-> <<"g", "g">>] : u \in SecureUserInputs }

CallbackLogs ==
    { <<>>, << PeerMessageOf(1) >>, << PeerMessageOf(1), PeerMessageOf(2) >> }

AppWithCallbacks(names, log) ==
    LET a == [AppInit EXCEPT !.mounted = TRUE,
                             !.held = TRUE,
                             !.listeners = AppEvents,
                             !.names = names,
                             !.log = log,
                             !.nextId = Len(log) + 1]
    IN [JoinAndShow(Connects(OnConnection(a))) EXCEPT
           !.last = [type |-> "step"]]

\* ---------------------------------------------------------------- initial state
Init ==
    /\ users = EmptyMap
    /\ rooms = EmptyMap
    /\ sockets = EmptyMap
    /\ typingUsers = EmptyMap
    /\ status = [s \in Sockets |-> "new"]
    /\ sioRooms = [s \in Sockets |-> {}]
    /\ nextUser = 1
    /\ nextMsg = 1
    /\ last = [type |-> "init"]
    /\ outbox = <<>>
    /\ lastOnline = [s \in Sockets |-> NoList]
    /\ accepted = EmptyMap
    /\ typingAge = EmptyMap
    /\ typingDue = EmptyMap
    /\ process = "running"
    /\ received = [s \in Sockets |-> <<>>]
    /\ secure = SecureInit
    /\ client = ClientInit
    /\ app = AppInit

\* ---------------------------------------------------------------- handlers
\* io.on('connection'): a new socket; its handlers are registered.  socket.id
\* is fresh: the model hands out the ids in increasing order.
Connection(s) ==
    /\ process = "running"
    /\ UNCHANGED << secure, client, app >>
    /\ status[s] = "new"
    /\ \A t \in Sockets : t < s => status[t] /= "new"
    /\ status' = [status EXCEPT ![s] = "open"]
    /\ last' = [type |-> "connection", socket |-> s]
    /\ outbox' = <<>>
    /\ UNCHANGED << users, rooms, sockets, typingUsers, sioRooms, nextUser,
                    nextMsg, lastOnline, accepted, typingAge, typingDue,
                    process, received >>

\* socket.on('joinRoom')
JoinRoom(s, username, room) ==
    /\ process = "running"
    /\ UNCHANGED << secure, client, app >>
    /\ status[s] = "open"
    /\ last' = [type |-> "joinRoom", socket |-> s, username |-> username,
                room |-> room]
    /\ IF ~Truthy(username) \/ ~Truthy(room)
       THEN /\ outbox' = << Emit("error", {s}, "Username and room are required") >>
            /\ lastOnline' = lastOnline
            /\ UNCHANGED << users, rooms, sockets, typingUsers, sioRooms,
                            nextUser, accepted, typingDue >>
       ELSE /\ nextUser \in UserIds
            /\ LET userId == nextUser
                   st == addUser(storage, userId, Trim(username), Trim(room), s)
                   sio == [sioRooms EXCEPT ![s] = @ \cup {room}]
                   out == << Emit("message", {s},
                                  SystemMessage("welcome", room \o username)),
                             Emit("message", SocketTo(sio, Connected, s, room),
                                  SystemMessage("joined", username)),
                             Emit("roomHistory", {s}, getRoomMessages(st, room)),
                             Emit("onlineUsers", IoTo(sio, Connected, room),
                                  getUsersInRoom(st, room)) >>
               IN /\ users' = st.users
                  /\ rooms' = st.rooms
                  /\ sockets' = st.sockets
                  /\ typingUsers' = st.typingUsers
                  /\ sioRooms' = sio
                  /\ nextUser' = nextUser + 1
                  /\ outbox' = out
                  /\ lastOnline' = Delivered(out)
                  /\ accepted' = accepted
                  /\ typingDue' = DueAfter({}, out, {s})
    /\ UNCHANGED << status, nextMsg, typingAge, process, received >>

\* The message object built by sendMessage.
UserMessage(id, user, text) ==
    [id |-> id, username |-> user.username, message |-> Trim(text),
     type |-> "user"]

\* socket.on('sendMessage')
SendMessage(s, message) ==
    /\ process = "running"
    /\ UNCHANGED << secure, client, app >>
    /\ status[s] = "open"
    /\ last' = [type |-> "sendMessage", socket |-> s, message |-> message]
    /\ LET user == getUserBySocketId(storage, s) IN
       IF user = NoUser
       THEN /\ outbox' = << Emit("error", {s}, "User not found") >>
            /\ UNCHANGED << rooms, nextMsg, accepted, received >>
       ELSE IF ~Truthy(message) \/ Trim(message) = <<>>
       THEN /\ outbox' = << Emit("error", {s}, "Message cannot be empty") >>
            /\ UNCHANGED << rooms, nextMsg, accepted, received >>
       ELSE /\ nextMsg <= MaxMsgs
            /\ LET messageObj == UserMessage(nextMsg, user, message) IN
               /\ rooms' = addMessage(rooms, user.room, messageObj)
               /\ outbox' = << Emit("message", IoTo(sioRooms, Connected, user.room),
                                    messageObj) >>
               /\ accepted' = Put(accepted, user.room,
                                  Append(IF Has(accepted, user.room)
                                         THEN accepted[user.room] ELSE <<>>,
                                         messageObj))
               /\ received' = ReceivedAfter(outbox')
            /\ nextMsg' = nextMsg + 1
    /\ UNCHANGED << users, sockets, typingUsers, status, sioRooms, nextUser,
                    lastOnline, typingAge, typingDue, process >>

\* socket.on('typing')
Typing(s, isTyping) ==
    /\ process = "running"
    /\ UNCHANGED << secure, client, app >>
    /\ status[s] = "open"
    /\ last' = [type |-> "typing", socket |-> s, isTyping |-> isTyping]
    /\ LET user == getUserBySocketId(storage, s) IN
       IF user = NoUser
       THEN /\ outbox' = <<>>
            /\ UNCHANGED << typingUsers, typingAge, typingDue >>
       ELSE LET r == setTyping(storage, user.id, user.room, isTyping) IN
            /\ typingUsers' = r.typingUsers
            /\ typingAge' = AgeAfter(r.typingUsers,
                                     IF isTyping THEN {user.id} ELSE {})
            /\ outbox' = << Emit("typing",
                                 SocketTo(sioRooms, Connected, s, user.room),
                                 TypingPayload(r.list, user)) >>
            /\ typingDue' = DueAfter({}, outbox', {})
    /\ UNCHANGED << users, rooms, sockets, status, sioRooms, nextUser, nextMsg,
                    lastOnline, accepted, process, received >>

\* socket.on('disconnect'): socket.io has taken the socket out of its rooms
\* before the handler runs.
Disconnect(s) ==
    /\ process = "running"
    /\ UNCHANGED << secure, client, app >>
    /\ status[s] = "open"
    /\ last' = [type |-> "disconnect", socket |-> s]
    /\ status' = [status EXCEPT ![s] = "closed"]
    /\ sioRooms' = [sioRooms EXCEPT ![s] = {}]
    /\ LET r == removeUser(storage, s)
           user == r.user
           conn == Connected \ {s}
           out == IF user = NoUser THEN <<>>
                  ELSE << Emit("message", SocketTo(sioRooms', conn, s, user.room),
                               SystemMessage("left", user.username)),
                          Emit("onlineUsers", SocketTo(sioRooms', conn, s, user.room),
                               getUsersInRoom(r.st, user.room)) >>
       IN /\ users' = r.st.users
          /\ rooms' = r.st.rooms
          /\ sockets' = r.st.sockets
          /\ typingUsers' = r.st.typingUsers
          /\ typingAge' = AgeAfter(r.st.typingUsers, {})
          /\ typingDue' = DueAfter(OwedUpdate(s, user), out, {s})
          /\ outbox' = out
          /\ lastOnline' = Delivered(out)
    /\ received' = [received EXCEPT ![s] = <<>>]
    /\ UNCHANGED << nextUser, nextMsg, accepted, process >>

\* socket.on('leaveRoom')
LeaveRoom(s) ==
    /\ process = "running"
    /\ UNCHANGED << secure, client, app >>
    /\ status[s] = "open"
    /\ last' = [type |-> "leaveRoom", socket |-> s]
    /\ LET r == removeUser(storage, s)
           user == r.user
           sio == IF user = NoUser THEN sioRooms
                  ELSE [sioRooms EXCEPT ![s] = @ \ {user.room}]
           out == IF user = NoUser THEN <<>>
                  ELSE << Emit("message", SocketTo(sio, Connected, s, user.room),
                               SystemMessage("left", user.username)),
                          Emit("onlineUsers", SocketTo(sio, Connected, s, user.room),
                               getUsersInRoom(r.st, user.room)),
                          Emit("leftRoom", {s}, <<>>) >>
       IN /\ users' = r.st.users
          /\ rooms' = r.st.rooms
          /\ sockets' = r.st.sockets
          /\ typingUsers' = r.st.typingUsers
          /\ typingAge' = AgeAfter(r.st.typingUsers, {})
          /\ typingDue' = DueAfter(OwedUpdate(s, user), out, {s})
          /\ sioRooms' = sio
          /\ outbox' = out
          /\ lastOnline' = Delivered(out)
    /\ UNCHANGED << status, nextUser, nextMsg, accepted, process, received >>

\* joinRoom, sendMessage or typing emitted with no argument: the handler's
\* parameter pattern ({ username, room }, { message }, { isTyping }) is bound
\* before the try block is entered, so the TypeError of destructuring
\* undefined leaves the handler uncaught.  No uncaughtException handler is
\* installed: the process exits, and with it the in-memory storage and every
\* connection.
NoArgument(s, event) ==
    /\ process = "running"
    /\ UNCHANGED << secure, client, app >>
    /\ status[s] = "open"
    /\ last' = [type |-> "malformed", event |-> event, socket |-> s,
                payload |-> "none"]
    /\ process' = "crashed"
    /\ outbox' = <<>>
    /\ users' = EmptyMap
    /\ rooms' = EmptyMap
    /\ sockets' = EmptyMap
    /\ typingUsers' = EmptyMap
    /\ status' = [t \in Sockets |-> "closed"]
    /\ sioRooms' = [t \in Sockets |-> {}]
    /\ nextUser' = 1
    /\ nextMsg' = 1
    /\ accepted' = EmptyMap
    /\ typingAge' = EmptyMap
    /\ typingDue' = EmptyMap
    /\ UNCHANGED << lastOnline, received >>

\* joinRoom with a username (and a room that is a non-empty string), or
\* sendMessage with a message, that is truthy but not a string (a number):
\* .trim() throws inside the try block before any store is touched, and the
\* catch block answers with an error event.
NonStringField(s, event) ==
    /\ process = "running"
    /\ UNCHANGED << secure, client, app >>
    /\ status[s] = "open"
    /\ event \in {"joinRoom", "sendMessage"}
    /\ last' = [type |-> "malformed", event |-> event, socket |-> s,
                payload |-> "nonString"]
    /\ outbox' =
          IF event = "joinRoom"
          THEN << Emit("error", {s}, "Failed to join room") >>
          ELSE IF getUserBySocketId(storage, s) = NoUser
               THEN << Emit("error", {s}, "User not found") >>
               ELSE << Emit("error", {s}, "Failed to send message") >>
    /\ UNCHANGED << users, rooms, sockets, typingUsers, status, sioRooms,
                    nextUser, nextMsg, lastOnline, accepted, typingAge,
                    typingDue, process, received >>

\* Time passes: one tick of the clock the expiry duration is measured in.
\* server.js starts no timer, so no handler is attached to it.
Tick ==
    /\ UNCHANGED << secure, client, app >>
    /\ \/ \E id \in DOMAIN typingAge : typingAge[id] < MaxAge
       \/ \E t \in DOMAIN typingDue : typingDue[t] < MaxAge
    /\ typingAge' = [id \in DOMAIN typingAge |->
                        IF typingAge[id] < MaxAge THEN typingAge[id] + 1
                        ELSE typingAge[id]]
    /\ typingDue' = [t \in DOMAIN typingDue |->
                        IF typingDue[t] < MaxAge THEN typingDue[t] + 1
                        ELSE typingDue[t]]
    /\ UNCHANGED << users, rooms, sockets, typingUsers, status, sioRooms,
                    nextUser, nextMsg, last, outbox, lastOnline, accepted,
                    process, received >>

Next ==
    \/ \E s \in Sockets : Connection(s)
    \/ \E s \in Sockets, u \in UserInputs, r \in RoomInputs : JoinRoom(s, u, r)
    \/ \E s \in Sockets, m \in TextInputs : SendMessage(s, m)
    \/ \E s \in Sockets, b \in BOOLEAN : Typing(s, b)
    \/ \E s \in Sockets : Disconnect(s)
    \/ \E s \in Sockets : LeaveRoom(s)
    \/ \E s \in Sockets, e \in PayloadEvents : NoArgument(s, e)

\* ---------------------------------------------------------------- properties
\* The identity the session store registers for a socket, if any.
Joined(t) == Has(sockets, t) /\ Has(users, sockets[t])
IdentityOf(t) == users[sockets[t]]

\* The open connections whose registered identity is a member of room R.
MemberSockets(R) ==
    { t \in Connected : /\ Joined(t)
                        /\ IdentityOf(t).room = R
                        /\ Has(rooms, R)
                        /\ sockets[t] \in rooms[R].users }

\* The last handler was a joinRoom that passed validation.
ValidJoin == last.type = "joinRoom" /\ Len(outbox) = 4
\* The last handler was a sendMessage that was accepted.
AcceptedSend ==
    last.type = "sendMessage" /\ outbox /= <<>> /\ outbox[1].event = "message"

\* How many emits of out reach t with the given event.
RECURSIVE Deliveries(_, _, _)
Deliveries(out, event, t) ==
    IF out = <<>> THEN 0
    ELSE (IF Head(out).event = event /\ t \in Head(out).to THEN 1 ELSE 0)
         + Deliveries(Tail(out), event, t)

\* The last n entries of a sequence, oldest first.
LastN(a, n) ==
    LET k == IF Len(a) < n THEN Len(a) ELSE n
    IN [i \in 1..k |-> a[Len(a) - k + i]]

AcceptedFor(r) == IF Has(accepted, r) THEN accepted[r] ELSE <<>>

\* C1: an accepted sendMessage appends the user message to the log of the
\* sender's room and delivers it exactly once to every connection whose
\* identity is a member of that room, the sender included.
C1_MessageReachesRoom ==
    AcceptedSend =>
        LET s == last.socket
            R == IdentityOf(s).room
            m == outbox[1].payload
        IN /\ m.type = "user"
           /\ rooms[R].messages /= <<>>
           /\ rooms[R].messages[Len(rooms[R].messages)] = m
           /\ \A t \in MemberSockets(R) : Deliveries(outbox, "message", t) = 1

\* C2: the message log of every room never holds more than the capacity.
C2_LogWithinCapacity ==
    \A r \in DOMAIN rooms : Len(rooms[r].messages) <= MaxLog

\* A log that is full after more messages than the capacity were accepted.
C2_Witness ==
    \E r \in DOMAIN rooms :
        Len(rooms[r].messages) = MaxLog /\ Len(AcceptedFor(r)) > MaxLog

\* C3: the history of a room is the last min(n, capacity) of the n user
\* messages accepted for it, in the order they were accepted.
C3_HistoryIsNewestInOrder ==
    \A r \in DOMAIN rooms :
        getRoomMessages(storage, r) = LastN(AcceptedFor(r), MaxLog)

\* One more message than the capacity was accepted for a room: the oldest is
\* gone and the log starts with the second.
C3_Witness ==
    \E r \in DOMAIN rooms :
        /\ Len(AcceptedFor(r)) = MaxLog + 1
        /\ Head(getRoomMessages(storage, r)) = accepted[r][2]
        /\ accepted[r][1] /= accepted[r][2]

\* C4: every entry of every log is a user message, and so is every entry of
\* every roomHistory that is emitted.
C4_NoSystemNoticeInLog ==
    /\ \A r \in DOMAIN rooms : \A i \in 1..Len(rooms[r].messages) :
          rooms[r].messages[i].type = "user"
    /\ \A k \in 1..Len(outbox) :
          outbox[k].event = "roomHistory" =>
              \A i \in 1..Len(outbox[k].payload) :
                  outbox[k].payload[i].type = "user"

\* A join, with its two system notices, into a room that has a message in its
\* log: the joiner is sent a non-empty history.
C4_Witness ==
    /\ ValidJoin
    /\ outbox[1].payload.type = "system"
    /\ outbox[2].payload.type = "system"
    /\ outbox[3].payload /= <<>>
    /\ outbox[3].payload = rooms[IdentityOf(last.socket).room].messages

\* C5: a valid join sends the welcome notice to the joiner only, the joined
\* notice to the other connections of the room, the room's history to the
\* joiner only and the room's online users to every connection of the room.
C5_JoinRouting ==
    ValidJoin =>
        LET s == last.socket
            R == IdentityOf(s).room
        IN /\ outbox[1].to = {s}
           /\ outbox[2].to = MemberSockets(R) \ {s}
           /\ outbox[3].to = {s}
           /\ outbox[3].payload = rooms[R].messages
           /\ outbox[4].to = MemberSockets(R)
           /\ outbox[4].payload = getUsersInRoom(storage, R)

\* C6: every joined connection holds, as its latest onlineUsers list, the
\* member set of its room.
C6_OnlineListIsMemberSet ==
    \A t \in Connected :
        (Joined(t) /\ t \in MemberSockets(IdentityOf(t).room)) =>
            /\ lastOnline[t].seen
            /\ { u.id : u \in lastOnline[t].users }
                  = rooms[IdentityOf(t).room].users

\* C7: the identity store and the session store are inverse to each other.
C7_StoresAreInverse ==
    /\ Cardinality(DOMAIN users) = Cardinality(DOMAIN sockets)
    /\ \A t \in DOMAIN sockets :
          Has(users, sockets[t]) /\ users[sockets[t]].socketId = t
    /\ \A id \in DOMAIN users :
          Has(sockets, users[id].socketId) /\ sockets[users[id].socketId] = id

\* The ids the stores still hold.
HeldIds ==
    (DOMAIN users)
        \cup UNION { rooms[r].users : r \in DOMAIN rooms }
        \cup UNION { typingUsers[r] : r \in DOMAIN typingUsers }

\* C8: no identity created by a session that has disconnected is left in the
\* identity store, a member set, a typing set or an emitted onlineUsers list.
C8_NothingLeftOfClosedSession ==
    /\ \A id \in HeldIds :
          Has(users, id) /\ status[users[id].socketId] /= "closed"
    /\ \A k \in 1..Len(outbox) :
          outbox[k].event = "onlineUsers" =>
              \A u \in outbox[k].payload : status[u.socketId] /= "closed"

\* C9: typing(true) from an identity sends every other connection of its room
\* a typing list that contains the identity and equals the room's typing set.
C9_TypingListShowsTyper ==
    (last.type = "typing" /\ last.isTyping /\ outbox /= <<>>) =>
        LET s == last.socket
            user == IdentityOf(s)
        IN \A t \in MemberSockets(user.room) \ {s} :
              /\ t \in outbox[1].to
              /\ user.id \in { u.id : u \in outbox[1].payload }
              /\ { u.id : u \in outbox[1].payload } = typingUsers[user.room]

\* C10: no typing entry is held for more than the expiry duration (and the one
\* scheduler tick the spec allows) after the identity's last typing(true).
C10_TypingEntryExpires ==
    \A id \in DOMAIN typingAge : typingAge[id] <= TypingExpiry + 1

\* The ids of the identities in an onlineUsers or typing payload.
Ids(list) == { u.id : u \in list }

\* The storage holds nothing of the identity u of socket s any more.
CleanedUp(st, s, u) ==
    /\ ~Has(st.users, u.id)
    /\ ~Has(st.sockets, s)
    /\ Has(st.rooms, u.room) /\ u.id \notin st.rooms[u.room].users
    /\ Has(st.typingUsers, u.room) => u.id \notin st.typingUsers[u.room]

\* The emits of out bring socket t one system notice and an onlineUsers list
\* without the identity u.
ToldOfDeparture(out, t, u) ==
    /\ Deliveries(out, "message", t) = 1
    /\ \E k \in 1..Len(out) :
          /\ out[k].event = "message"
          /\ t \in out[k].to
          /\ out[k].payload.type = "system"
    /\ Deliveries(out, "onlineUsers", t) = 1
    /\ \E k \in 1..Len(out) :
          /\ out[k].event = "onlineUsers"
          /\ t \in out[k].to
          /\ u.id \notin Ids(out[k].payload)

\* C11: when an identity that is in its room's typing set leaves or
\* disconnects, every remaining member of the room is sent a typing update
\* within the expiry duration.
C11_DepartedTyperAnnounced ==
    \A t \in DOMAIN typingDue : typingDue[t] <= TypingExpiry

\* C12: leaveRoom from a joined socket takes its identity out of the typing
\* set, the member set and the identity and session stores, sends the left
\* notice and the updated online users to the remaining connections of the
\* room, no notice to the leaver, and the leftRoom confirmation to the leaver
\* only.
C12_LeaveRoomCleansAndRoutes ==
    [][ (last'.type = "leaveRoom" /\ Joined(last'.socket)) =>
            LET s == last'.socket
                u == IdentityOf(s)
                remaining == MemberSockets(u.room) \ {s}
            IN /\ CleanedUp(storage', s, u)
               /\ \A t \in remaining : ToldOfDeparture(outbox', t, u)
               /\ Deliveries(outbox', "message", s) = 0
               /\ Deliveries(outbox', "leftRoom", s) = 1
               /\ \A t \in Sockets \ {s} :
                     Deliveries(outbox', "leftRoom", t) = 0 ]_vars

\* C13: disconnect of a joined socket does the same cleanup as leaveRoom,
\* sends the left notice and an online-users list without its identity to
\* every remaining connection of the room, and emits nothing to the socket.
C13_DisconnectCleansAndRoutes ==
    [][ (last'.type = "disconnect" /\ Joined(last'.socket)) =>
            LET s == last'.socket
                u == IdentityOf(s)
                remaining == MemberSockets(u.room) \ {s}
            IN /\ CleanedUp(storage', s, u)
               /\ \A t \in remaining : ToldOfDeparture(outbox', t, u)
               /\ \A k \in 1..Len(outbox') : s \notin outbox'[k].to ]_vars

\* C14: a sendMessage from a socket that has no registered identity is answered
\* with one error event to that socket only; no log changes, no message is
\* accepted and nothing is broadcast.
C14_UnregisteredSendRejected ==
    [][ (last'.type = "sendMessage" /\ ~Joined(last'.socket)) =>
            /\ Len(outbox') = 1
            /\ outbox'[1].event = "error"
            /\ outbox'[1].to = {last'.socket}
            /\ rooms' = rooms
            /\ accepted' = accepted
            /\ nextMsg' = nextMsg ]_vars

\* The only socket ever opened has joined (its room exists), has left, and
\* its sendMessage with a valid body was answered with the error.
C14_Witness ==
    /\ last.type = "sendMessage"
    /\ Trim(last.message) /= <<>>
    /\ ~Joined(last.socket)
    /\ \A t \in Sockets \ {last.socket} : status[t] = "new"
    /\ DOMAIN rooms /= {}
    /\ Len(outbox) = 1
    /\ outbox[1].event = "error"

\* C15: once leaveRoom or disconnect has been processed for a socket, a
\* further removeUser for it returns absent and leaves the storage as it is;
\* and a leaveRoom or disconnect from a socket without identity (one that
\* follows an explicit leaveRoom) emits nothing and changes no store.
C15_CleanupIdempotent ==
    [][ last'.type \in {"leaveRoom", "disconnect"} =>
            /\ removeUser(storage', last'.socket)
                  = [st |-> storage', user |-> NoUser]
            /\ ~Joined(last'.socket) =>
                  /\ outbox' = <<>>
                  /\ storage' = storage
                  /\ lastOnline' = lastOnline ]_vars

\* The only socket ever opened has joined (its room exists) and left; the
\* disconnect that followed found no identity and emitted nothing.
C15_Witness ==
    /\ last.type = "disconnect"
    /\ \A t \in Sockets \ {last.socket} : status[t] = "new"
    /\ DOMAIN rooms /= {}
    /\ users = EmptyMap
    /\ sockets = EmptyMap
    /\ outbox = <<>>

\* C16: every valid joinRoom registers an id that no identity had before; when
\* the socket already has an identity, the new id differs from it and the
\* earlier identity's record is neither returned nor updated.
C16_JoinAllocatesNewIdentity ==
    [][ (last'.type = "joinRoom" /\ Len(outbox') = 4) =>
            LET s == last'.socket
                new == sockets'[s]
            IN /\ ~Has(users, new)
               /\ Has(users', new)
               /\ users'[new].socketId = s
               /\ Joined(s) =>
                     /\ new /= sockets[s]
                     /\ Has(users', sockets[s])
                     /\ users'[sockets[s]] = users[sockets[s]] ]_vars

\* A second valid joinRoom from one socket: two identities carry its socket id.
C16_Witness ==
    /\ ValidJoin
    /\ \E a, b \in DOMAIN users :
          /\ a /= b
          /\ users[a].socketId = last.socket
          /\ users[b].socketId = last.socket
          /\ sockets[last.socket] = b

\* C17: an inbound event with a missing or malformed payload is contained by
\* its handler: the process keeps running, no store changes and at most one
\* error event is emitted, to the offending socket only.
C17_MalformedEventContained ==
    [][ last'.type = "malformed" =>
            /\ process' = "running"
            /\ storage' = storage
            /\ Len(outbox') <= 1
            /\ \A k \in 1..Len(outbox') :
                  /\ outbox'[k].event = "error"
                  /\ outbox'[k].to = {last'.socket} ]_vars

\* C18: a joinRoom whose username or room is empty, or empty after trimming,
\* is answered with one error event to the socket only; no identity is
\* registered, no room is created, no member set changes, the socket joins no
\* socket.io room and stays open.
C18_BlankNameRejected ==
    [][ (/\ last'.type = "joinRoom"
         /\ Trim(last'.username) = <<>> \/ Trim(last'.room) = <<>>) =>
            /\ Len(outbox') = 1
            /\ outbox'[1].event = "error"
            /\ outbox'[1].to = {last'.socket}
            /\ storage' = storage
            /\ sioRooms' = sioRooms
            /\ status' = status
            /\ status'[last'.socket] = "open" ]_vars

\* C19: a sendMessage from a joined socket whose body is empty after trimming
\* or longer than the bound is answered with one error event to the sender
\* only; the log of the room is unchanged and no message event is emitted.
C19_BodyWithinBounds ==
    [][ (/\ last'.type = "sendMessage"
         /\ Joined(last'.socket)
         /\ \/ Trim(last'.message) = <<>>
            \/ Len(Trim(last'.message)) > MaxBody) =>
            /\ Len(outbox') = 1
            /\ outbox'[1].event = "error"
            /\ outbox'[1].to = {last'.socket}
            /\ rooms' = rooms
            /\ accepted' = accepted ]_vars

\* C20: the typing set of every room holds only ids that are in the member
\* set of that room.
C20_TypingWithinMembers ==
    \A r \in DOMAIN typingUsers :
        Has(rooms, r) /\ typingUsers[r] \subseteq rooms[r].users

\* An identity has just left or disconnected and been taken out of the
\* stores, while a remaining member of the room it left is in the typing set.
C20_Witness ==
    /\ last.type \in {"leaveRoom", "disconnect"}
    /\ Len(outbox) >= 2
    /\ outbox[2].event = "onlineUsers"
    /\ \E u \in outbox[2].payload :
          /\ Has(typingUsers, u.room)
          /\ u.id \in typingUsers[u.room]
          /\ u.id \in rooms[u.room].users

\* C21: every id in the member set of a room is the id of a registered
\* identity whose recorded room is that room, so getUsersInRoom resolves
\* every member.
C21_MembersAreRegistered ==
    \A r \in DOMAIN rooms :
        /\ \A id \in rooms[r].users : Has(users, id) /\ users[id].room = r
        /\ Ids(getUsersInRoom(storage, r)) = rooms[r].users

\* An identity has just left or disconnected and a member remains in the
\* room it left.
C21_Witness ==
    /\ last.type \in {"leaveRoom", "disconnect"}
    /\ Len(outbox) >= 2
    /\ outbox[2].event = "onlineUsers"
    /\ outbox[2].payload /= {}
    /\ \E u \in outbox[2].payload : u.id \in rooms[u.room].users

\* C22: while the server runs, no event removes a room or resets its log (the
\* log changes only by an accepted sendMessage, and never gets shorter), and
\* a valid join into a room that exists and has no member is sent the log
\* the room retained.
C22_RoomsAndLogsRetained ==
    [][ process' = "running" =>
        /\ \A r \in DOMAIN rooms :
              /\ Has(rooms', r)
              /\ Len(rooms'[r].messages) >= Len(rooms[r].messages)
              /\ last'.type /= "sendMessage" =>
                    rooms'[r].messages = rooms[r].messages
        /\ (last'.type = "joinRoom" /\ Len(outbox') = 4) =>
              LET R == users'[sockets'[last'.socket]].room
              IN (Has(rooms, R) /\ rooms[R].users = {}) =>
                    /\ outbox'[3].event = "roomHistory"
                    /\ outbox'[3].to = {last'.socket}
                    /\ outbox'[3].payload = rooms[R].messages ]_vars

\* The ids of rcv that occur in the sequence of messages msgs occur in rcv in
\* the order they have in msgs.
OrderedAs(msgs, rcv) ==
    \A i, j \in 1..Len(rcv) :
        i < j =>
            \A k, l \in 1..Len(msgs) :
                (msgs[k].id = rcv[i] /\ msgs[l].id = rcv[j]) => k < l

\* C23: every socket has been sent the user messages of a room in the order
\* in which they were appended to the room's log.
C23_SameOrderForAll ==
    \A t \in Sockets : \A r \in DOMAIN rooms :
        /\ OrderedAs(rooms[r].messages, received[t])
        /\ OrderedAs(AcceptedFor(r), received[t])

\* Every socket is open and has been sent, one after the other, the two
\* messages a room's log holds.
C23_Witness ==
    \E r \in DOMAIN rooms :
        /\ Len(rooms[r].messages) = 2
        /\ rooms[r].messages[1].id /= rooms[r].messages[2].id
        /\ \A t \in Sockets :
              /\ status[t] = "open"
              /\ Len(received[t]) >= 2
              /\ \E i, j \in 1..Len(received[t]) :
                    /\ i < j
                    /\ received[t][i] = rooms[r].messages[1].id
                    /\ received[t][j] = rooms[r].messages[2].id

\* The accepted connections from an address that are open.
OpenFrom(sec, ip) == { c \in SecureOpen(sec) : sec.conn[c].ip = ip }

\* C24: after every connection and disconnect handler of the hardened server
\* the counter of each address is the number of its open accepted
\* connections and is at most the limit; a connection attempted while the
\* limit is reached is sent an error, is disconnected with no handler
\* registered, and leaves the counters as they were.
C24_CounterIsOpenConnections ==
    [][ /\ \A ip \in Addresses :
              /\ ConnectionsFrom(secure'.ipConnections, ip)
                    = Cardinality(OpenFrom(secure', ip))
              /\ ConnectionsFrom(secure'.ipConnections, ip) <= MaxConnectionsPerIP
        /\ (/\ secure'.last.type = "connection"
            /\ secure.conn[secure'.last.socket].state = "new"
            /\ Cardinality(OpenFrom(secure, secure'.last.ip))
                  = MaxConnectionsPerIP) =>
              LET c == secure'.last.socket
              IN /\ secure'.conn[c].state = "refused"
                 /\ secure'.out = << Emit("error", {c}, "Connection limit exceeded") >>
                 /\ secure'.ipConnections = secure.ipConnections
                 /\ SecureStorage(secure') = SecureStorage(secure)
                 /\ secure'.sio = secure.sio ]_vars

\* A connection was refused while the limit of its address was reached, after
\* some connection had been closed.
C24_Witness ==
    /\ secure.last.type = "connection"
    /\ secure.conn[secure.last.socket].state = "refused"
    /\ Cardinality(OpenFrom(secure, secure.last.ip)) = MaxConnectionsPerIP
    /\ secure.ipConnections[secure.last.ip] = MaxConnectionsPerIP
    /\ \E d \in SecureSockets : secure.conn[d].state = "closed"

\* C25: the hardened server accepts (stores and broadcasts) at most the
\* limit of sendMessage events from one client within one window.
C25_MessagesRateLimited ==
    \A c \in SecureSockets : secure.sent[c] <= MaxPerWindow

\* C27: a typing, leaveRoom or disconnect event from a socket that has no
\* registered identity (also a typing(false) that arrives after the cleanup)
\* leaves the identity, session, room and typing stores as they are and emits
\* nothing to any connection; the process keeps running.
C27_NoIdentityNoEffect ==
    [][ (/\ last'.type \in {"typing", "leaveRoom", "disconnect"}
         /\ ~Joined(last'.socket)) =>
            /\ users' = users
            /\ sockets' = sockets
            /\ rooms' = rooms
            /\ typingUsers' = typingUsers
            /\ outbox' = <<>>
            /\ \A t \in Sockets : sioRooms'[t] \subseteq sioRooms[t]
            /\ process' = "running" ]_vars

\* The only socket ever opened has joined and left its room; the typing(false)
\* that arrived from it afterwards found no identity and emitted nothing.
C27_Witness ==
    /\ last.type = "typing"
    /\ ~last.isTyping
    /\ status[last.socket] = "open"
    /\ \A t \in Sockets \ {last.socket} : status[t] = "new"
    /\ DOMAIN rooms /= {}
    /\ ~Joined(last.socket)
    /\ users = EmptyMap
    /\ outbox = <<>>

\* The events of out that reach t, in the order of the emits.
RECURSIVE EventsTo(_, _)
EventsTo(out, t) ==
    IF out = <<>> THEN <<>>
    ELSE (IF t \in Head(out).to THEN << Head(out).event >> ELSE <<>>)
         \o EventsTo(Tail(out), t)

\* C28: after every valid join the joiner has been sent, in this order, the
\* welcome notice, the room history and the online users, and that list of
\* online users names the joiner's own identity.
C28_JoinerSeesItselfOnline ==
    ValidJoin =>
        LET s == last.socket
        IN /\ EventsTo(outbox, s) = << "message", "roomHistory", "onlineUsers" >>
           /\ outbox[1].payload.type = "system"
           /\ outbox[1].to = {s}
           /\ sockets[s] \in Ids(outbox[4].payload)

\* C29: every typing update that reaches a connection with an identity lists
\* the typing set of that identity's room without the identity itself: no
\* recipient finds its own identity in the list.
C29_TypingListExcludesRecipient ==
    \A k \in 1..Len(outbox) :
        outbox[k].event = "typing" =>
            \A t \in outbox[k].to :
                Joined(t) =>
                    LET R == IdentityOf(t).room
                        typing == IF Has(typingUsers, R) THEN typingUsers[R]
                                  ELSE {}
                    IN /\ sockets[t] \notin Ids(outbox[k].payload)
                       /\ Ids(outbox[k].payload) = typing \ {sockets[t]}

\* After the step, t is an open connection whose registered identity is a
\* member of room R.
MemberAfter(t, R) ==
    /\ status'[t] = "open"
    /\ Has(sockets', t)
    /\ Has(users', sockets'[t])
    /\ users'[sockets'[t]].room = R
    /\ Has(rooms', R)
    /\ sockets'[t] \in rooms'[R].users

\* C30: room isolation.  Every message, onlineUsers and typing event a handler
\* emits for the room of its identity reaches only connections whose registered
\* identity is, after the handler, a member of that room.
C30_RoomIsolation ==
    [][ \A k \in 1..Len(outbox') :
          outbox'[k].event \in {"message", "onlineUsers", "typing"} =>
              LET R == IF last'.type = "joinRoom" THEN Trim(last'.room)
                       ELSE IdentityOf(last'.socket).room
              IN \A t \in outbox'[k].to : MemberAfter(t, R) ]_vars

\* C26: in the message input the typing indicator is cleared by the timer
\* exactly TypingExpiry after the last keystroke and not earlier (while the
\* indicator is set, the countdown left is TypingExpiry less the time since
\* the last keystroke); a keystroke that leaves non-blank text starts the
\* countdown again; sending the text emits typing(false) in the same step and
\* cancels the countdown.
C26_ClientTypingTimeout ==
    [][ client' /= client =>
          /\ client'.isTyping =>
                /\ client'.timer = TypingExpiry - client'.sinceKey
                /\ client'.timer >= 0
          /\ client'.last = "timeout" =>
                /\ client.isTyping
                /\ client.sinceKey = TypingExpiry
                /\ ~client'.isTyping
                /\ client'.out = << TypingEvent(FALSE) >>
          /\ (client'.last = "change" /\ Len(Trim(client'.message)) > 0) =>
                /\ client'.isTyping
                /\ client'.timer = TypingExpiry
                /\ client'.sinceKey = 0
                /\ client'.out = IF client.isTyping THEN <<>>
                                 ELSE << TypingEvent(TRUE) >>
          /\ (client'.last = "send" /\ Len(Trim(client.message)) > 0) =>
                /\ client'.out = << SendEvent(Trim(client.message)),
                                    TypingEvent(FALSE) >>
                /\ ~client'.isTyping
                /\ client'.timer = NoTimer
    ]_vars

\* The timer has cleared the indicator of a text that is still in the field,
\* TypingExpiry after its last keystroke.
C26_Witness ==
    /\ client.last = "timeout"
    /\ client.sinceKey = TypingExpiry
    /\ Len(Trim(client.message)) > 0
    /\ ~client.isTyping
    /\ client.out = << TypingEvent(FALSE) >>

\* C31: every socket is subscribed to exactly the socket.io room named by the
\* room of its registered identity, and to none when it has no identity.
C31_SubscribedToOwnRoom ==
    \A t \in Sockets :
        sioRooms[t] = IF Joined(t) THEN { IdentityOf(t).room } ELSE {}

\* The ids of the messages of a log.
LogIds(msgs) == { msgs[i].id : i \in 1..Len(msgs) }

\* C32: the roomHistory of a valid join is the log of the joiner's room at that
\* moment, and every user message accepted afterwards is new (it is in no
\* log, so in no history sent before, and no socket has been sent it) and is
\* delivered exactly once to every connection that is then a member of the
\* room: the history and the live messages of a member have no gap and no
\* duplicate.
C32_HistoryThenLive ==
    [][ /\ ValidJoin' =>
              LET R == Trim(last'.room)
              IN /\ Has(rooms, R) => outbox'[3].payload = rooms[R].messages
                 /\ ~Has(rooms, R) => outbox'[3].payload = <<>>
                 /\ outbox'[3].payload = rooms'[R].messages
        /\ AcceptedSend' =>
              LET s == last'.socket
                  R == IdentityOf(s).room
                  m == outbox'[1].payload
              IN /\ \A r \in DOMAIN rooms : m.id \notin LogIds(rooms[r].messages)
                 /\ \A t \in Sockets :
                       \A i \in 1..Len(received[t]) : received[t][i] /= m.id
                 /\ \A t \in MemberSockets(R) :
                       /\ Deliveries(outbox', "message", t) = 1
                       /\ received'[t] = Append(received[t], m.id) ]_vars

\* C33: while the chat room is shown, every event that reaches the client's
\* socket finds App's handler attached, and a message event is appended to the
\* client's message list.
C33_HandlersOnSessionSocket ==
    [][ (/\ app'.last.type = "receive"
         /\ app.inbox /= <<>>
         /\ app'.inbox = Tail(app.inbox)
         /\ Head(app.inbox).event \in AppEvents
         /\ app.up
         /\ ChatRoomShown(app)) =>
            LET ev == Head(app.inbox)
            IN /\ ev.event \in app.listeners
               /\ ev.event = "message" =>
                     app'.messages = Append(app.messages, ev.payload) ]_vars

\* Nothing is in flight between the client and the server.
NothingInFlight(a) ==
    /\ \A k \in AppSocketIds : a.toServer[k] = <<>>
    /\ a.buffer = <<>>
    /\ a.inbox = <<>>

RECURSIVE Alternates(_, _)
Alternates(open, out) ==
    IF out = <<>> THEN TRUE
    ELSE IF Head(out).event = "typing"
         THEN /\ Head(out).isTyping /= open
              /\ Alternates(Head(out).isTyping, Tail(out))
         ELSE Alternates(open, Tail(out))

NextTimed ==
    \/ \E s \in Sockets : Connection(s)
    \/ \E s \in Sockets, u \in UserInputs, r \in RoomInputs : JoinRoom(s, u, r)
    \/ \E s \in Sockets, b \in BOOLEAN : Typing(s, b)
    \/ \E s \in Sockets : Disconnect(s)
    \/ \E s \in Sockets : LeaveRoom(s)
    \/ Tick

SpecTimed == Init /\ [][NextTimed]_vars

\* The input specification: the handlers that validate a payload, with the
\* payloads at the edge of the format constraints and the malformed ones.
NextInputs ==
    \/ \E s \in Sockets : Connection(s)
    \/ \E s \in Sockets, u \in BlankableUsers, r \in BlankableRooms :
          JoinRoom(s, u, r)
    \/ \E s \in Sockets, m \in BodyInputs : SendMessage(s, m)
    \/ \E s \in Sockets, e \in PayloadEvents : NoArgument(s, e)
    \/ \E s \in Sockets, e \in PayloadEvents : NonStringField(s, e)

SpecInputs == Init /\ [][NextInputs]_vars

\* The hardened server's connection handling: four connections from two
\* addresses that join, leave and disconnect.
NextSecure ==
    \/ \E c \in SecureSockets, ip \in Addresses : SecureConnection(c, ip)
    \/ \E c \in SecureSockets, r \in CountedRoomInputs :
          SecureJoinRoom(c, <<"A", "l">>, r)
    \/ \E c \in SecureSockets : SecureLeaveRoom(c)
    \/ \E c \in SecureSockets : SecureDisconnect(c)

SpecSecure == Init /\ [][NextSecure]_vars

\* The hardened server's handlers, for two connections, with the windows of
\* the rate limit.
NextLimiter ==
    \/ \E c \in ChatSockets : SecureConnection(c, "a")
    \/ \E c \in ChatSockets, u \in SecureUserInputs, r \in SecureRoomInputs :
          SecureJoinRoom(c, u, r)
    \/ \E c \in ChatSockets, m \in BodyInputs : SecureSendMessage(c, m)
    \/ \E c \in ChatSockets, b \in BOOLEAN : SecureTyping(c, b)
    \/ \E c \in ChatSockets : SecureLeaveRoom(c)
    \/ \E c \in ChatSockets : SecureDisconnect(c)
    \/ \E c \in ChatSockets, e \in PayloadEvents : SecureNoArgument(c, e)
    \/ WindowElapses

SpecLimiter == Init /\ [][NextLimiter]_vars

\* The client's message input with its clock.
NextClient ==
    \/ Mount
    \/ Unmount
    \/ \E d \in BOOLEAN : SetDisabled(d)
    \/ \E v \in ClientTexts : InputChange(v)
    \/ ClientSend
    \/ TimerFires
    \/ ClientTick

SpecClient == Init /\ [][NextClient]_vars

\* The client's App with its socketService and the server's answers.
NextApp ==
    \/ AppMount
    \/ AppUnmount
    \/ \E u \in FormUserInputs, r \in FormRoomInputs : LoginSubmit(u, r)
    \/ ServerConnects
    \/ \E o \in {"open", "failed"} : ConnectSettles(o)
    \/ Reconnect
    \/ HandleLogout
    \/ \E m \in AppTexts : HandleSendMessage(m)
    \/ \E b \in BOOLEAN : HandleTyping(b)
    \/ ClearError
    \/ \E k \in AppSocketIds : ServerHandles(k)
    \/ PeerJoin
    \/ PeerMessage
    \/ \E b \in BOOLEAN : PeerTyping(b)
    \/ PeerLeave
    \/ Receive
    \/ ConnectionLost
    \/ \E k \in AppSocketIds : ServerNoticesLoss(k)
    \/ OtherConnects
    \/ OtherDisconnects

SpecApp == Init /\ [][NextApp]_vars

\* The callbacks of App applied, in the order of arrival, to what the
\* server's handlers emit.
InitCallbacks ==
    /\ users = EmptyMap
    /\ rooms = EmptyMap
    /\ sockets = EmptyMap
    /\ typingUsers = EmptyMap
    /\ status = [s \in Sockets |-> "new"]
    /\ sioRooms = [s \in Sockets |-> {}]
    /\ nextUser = 1
    /\ nextMsg = 1
    /\ last = [type |-> "init"]
    /\ outbox = <<>>
    /\ lastOnline = [s \in Sockets |-> NoList]
    /\ accepted = EmptyMap
    /\ typingAge = EmptyMap
    /\ typingDue = EmptyMap
    /\ process = "running"
    /\ received = [s \in Sockets |-> <<>>]
    /\ secure = SecureInit
    /\ client = ClientInit
    /\ app \in { AppWithCallbacks(n, l) : n \in CallbackNames,
                                          l \in CallbackLogs }

NextCallbacks ==
    \/ \E k \in AppSocketIds : ServerHandles(k)
    \/ PeerJoin
    \/ PeerMessage
    \/ \E b \in BOOLEAN : PeerTyping(b)
    \/ PeerLeave
    \/ Receive
    \/ \E m \in AppTexts : HandleSendMessage(m)
    \/ \E b \in BOOLEAN : HandleTyping(b)
    \/ HandleLogout
    \/ ClearError

SpecCallbacks == InitCallbacks /\ [][NextCallbacks]_vars

Spec == Init /\ [][Next]_vars
====
